---- MODULE Spec2Model ----
(***************************************************************************)
(* The two-tier routing-and-tool-execution protocol of the NFT             *)
(* orchestrator (src/main.py) and of its agents (src/nft*.py,              *)
(* src/portfolio.py).                                                      *)
(*                                                                         *)
(* One NFTOrchestrator instance and one instance of each agent exist.  A   *)
(* chat call is a sequence of steps of one thread: every step below is one *)
(* stretch of straight-line Python between two calls to an external        *)
(* collaborator (the decision service or the analytics REST API).  The     *)
(* collaborators are the environment: each of their answers is drawn       *)
(* nondeterministically from a bounded set.                                *)
(***************************************************************************)
EXTENDS Integers, Sequences, FiniteSets, TLC

VARIABLES
    orch,       \* the frame of NFTOrchestrator.chat: its locals and its position
    agent,      \* per agent, the frame of <Agent>.chat: its locals and its position
    probe       \* observation only: calls made to collaborators, agent runs

vars == <<orch, agent, probe>>

(***************************************************************************)
(* Bounds of the environment.                                              *)
(***************************************************************************)
\* routing entries in one routing decision
MaxEntries == 2
\* tool requests in one decision of an agent run from its own command loop
MaxTools == 2
\* tool requests in one decision of an agent run under the orchestrator
MaxNestedTools == 1
\* chat calls served one after the other, in the scenario of successive calls
MaxCalls == 2

(***************************************************************************)
(* Values.                                                                 *)
(***************************************************************************)
Agents ==
    {"gaming", "price_estimation", "brand", "defi", "fungible", "wallet",
     "token", "portfolio"}

\* the agents that are also run from their file's own command loop (every
\* agent file has one; two of them are run that way here)
MainAgents == {"brand", "portfolio"}

UserQueries == {"user query"}
\* The scenarios.  "protocol": one call at a time, decisions of several
\* entries, one query text.  "calls": successive calls on the one
\* orchestrator, remembered in orch.served; the calls differ in their query
\* and every decision has one entry.  "concurrent": two calls on the one
\* orchestrator, each in a thread of its own (orch.slot is the thread that
\* runs, orch.parked holds the other thread's locals); thread 1 serves
\* "user query", thread 2 "another query", every decision has one entry.
\* "dispatch": a caller of an agent's dispatcher that calls it twice with
\* one name and one argument mapping against a collaborator that gives one
\* answer (orch.bench).  "live": the protocol scenario of the server alone,
\* for what every chat call eventually does; the agents' decisions have one
\* request.
Queries ==
    CASE orch.scenario \in {"protocol", "live", "lifecycle"} -> UserQueries
      [] orch.scenario \in {"calls", "replay"} -> UserQueries \cup {"another query"}
      [] orch.scenario = "concurrent" ->
           IF orch.slot = 1 THEN {"user query"} ELSE {"another query"}
\* the calls served in a row: in the scenario "replay" the two that are
\* compared
CallLimit == IF orch.scenario = "replay" THEN 2 ELSE MaxCalls
EntryLimit == IF orch.scenario \in {"protocol", "live"} THEN MaxEntries ELSE 1
NestedToolLimit == IF orch.scenario = "protocol" THEN MaxNestedTools ELSE 1
Texts == {"text A", "text B"}
NoValue == "<none>"

\* A string as the decision service sends it or as json.dumps produces it:
\* plain text, or the JSON text of an object (a set of <<key, value>> pairs).
Text(s) == [fmt |-> "text", text |-> s, obj |-> {}]
JsonDumps(o) == [fmt |-> "json", text |-> "", obj |-> o]
JsonLoadsRaises(c) == c.fmt # "json"
JsonLoads(c) == c.obj
NotJson == Text("{not json")

Keys(o) == {p[1] : p \in o}
Get(o, k) == (CHOOSE p \in o : p[1] = k)[2]

\* f(**arguments): raises TypeError unless every required parameter is
\* given and every key given is a parameter.
BindRaises(sig, arguments) ==
    ~ (sig.required \subseteq Keys(arguments)
       /\ Keys(arguments) \subseteq (sig.required \cup sig.optional))

\* f"An error occurred: {str(e)}"
ErrorMsg(e) ==
    CASE e = "DecisionServiceError" -> "An error occurred: decision service unavailable"
      [] e = "JSONDecodeError" -> "An error occurred: Expecting property name"
      [] e = "TypeError" -> "An error occurred: unexpected or missing argument"
      [] OTHER -> "An error occurred"
ErrorStrings == {ErrorMsg(e) : e \in {"DecisionServiceError", "JSONDecodeError", "TypeError"}}

\* conversation turns
Turn(role, id, content, calls) ==
    [role |-> role, tool_call_id |-> id, content |-> content, tool_calls |-> calls]
SystemPrompt(who) ==
    CASE who = "orchestrator" -> "You are an NFT Query Orchestrator"
      [] who = "gaming" -> "You are an NFT Gaming Metrics Assistant"
      [] who = "brand" -> "You are an NFT Brand Metrics Assistant"
      [] who = "portfolio" -> "You are a Portfolio Analysis Agent"
      [] OTHER -> "You are an NFT Assistant"
SystemTurn(who) == Turn("system", 0, Text(SystemPrompt(who)), << >>)
UserTurn(q) == Turn("user", 0, Text(q), << >>)
AssistantTurn(calls) == Turn("assistant", 0, Text(""), calls)
ToolTurn(id, result) == Turn("tool", id, JsonDumps(result), << >>)
InitialMessages(who, q) == <<SystemTurn(who), UserTurn(q)>>


(***************************************************************************)
(* Dispatch tables.                                                        *)
(***************************************************************************)
\* NFTOrchestrator.execute_routing_call: routing function -> agent attribute
RoutingTable ==
    [route_to_gaming_agent |-> "gaming",
     route_to_price_agent |-> "price_estimation",
     route_to_brand_agent |-> "brand",
     route_to_defi_agent |-> "defi",
     route_to_fungible_agent |-> "fungible",
     route_to_wallet_agent |-> "wallet",
     route_to_token_agent |-> "token",
     route_to_portfolio_agent |-> "portfolio"]
SingleRoutes == DOMAIN RoutingTable
BothRoute == "route_to_both_agents"

\* parameters of route_to_<x>_agent(query, reason) and of route_to_both_agents
SingleSignature == [required |-> {"query", "reason"}, optional |-> {}]
BothSignature ==
    [required |-> {"gaming_query", "price_query", "reason"}, optional |-> {}]

\* <Agent>.execute_function_call / PortfolioAgent.execute_tool_call:
\* the names with a branch, per agent
Handlers(a) ==
    CASE a = "gaming" ->
           {"get_game_contracts_info", "get_nft_gaming_metrics_by_contract",
            "get_nft_gaming_metrics_by_game"}
      [] a = "brand" ->
           {"get_brand_details", "get_brand_metrics_by_contract",
            "get_brand_category_details"}
      [] a = "defi" ->
           {"get_dex_pool_metadata", "get_dex_pool_metrics", "get_dex_pools_by_protocol"}
      [] a = "fungible" -> {"get_historical_price", "get_price_estimate"}
      [] a = "wallet" ->
           {"get_wallet_analytics", "get_wallet_scores", "get_wallet_profile"}
      [] a = "token" ->
           {"get_token_metrics", "get_token_price_prediction", "get_token_dex_price"}
      [] a = "portfolio" ->
           {"get_defi_portfolio", "get_nft_portfolio", "get_erc20_portfolio",
            "get_wallet_label", "get_wallet_score", "get_wallet_metrics"}
      [] a = "price_estimation" -> {"get_supported_collections"}

\* the parameters of each handler: those without and those with a default
Signature(name) ==
    CASE name = "get_game_contracts_info" ->
           [required |-> {}, optional |-> {"limit", "offset", "blockchain"}]
      [] name \in {"get_nft_gaming_metrics_by_contract"} ->
           [required |-> {"contract_address"},
            optional |-> {"blockchain", "time_range", "limit", "offset"}]
      [] name = "get_nft_gaming_metrics_by_game" ->
           [required |-> {"game"},
            optional |-> {"blockchain", "time_range", "limit", "offset"}]
      [] name = "get_brand_details" ->
           [required |-> {"brand"}, optional |-> {"time_range"}]
      [] name = "get_brand_metrics_by_contract" ->
           [required |-> {"contract_address"}, optional |-> {"chain_id", "time_range"}]
      [] name = "get_brand_category_details" ->
           [required |-> {"category"}, optional |-> {"limit", "offset"}]
      [] name \in {"get_dex_pool_metadata", "get_dex_pool_metrics"} ->
           [required |-> {"pair_address"}, optional |-> {}]
      [] name = "get_dex_pools_by_protocol" ->
           [required |-> {"protocol"}, optional |-> {}]
      [] name = "get_historical_price" ->
           [required |-> {"chain_id", "token_address"},
            optional |-> {"currency", "time_range"}]
      [] name = "get_price_estimate" ->
           [required |-> {"chain_id", "token_address"}, optional |-> {}]
      [] name = "get_wallet_analytics" ->
           [required |-> {"wallet", "blockchain"},
            optional |-> {"time_range", "sort_by", "sort_order", "offset", "limit"}]
      [] name = "get_wallet_scores" ->
           [required |-> {"wallet", "blockchain"},
            optional |-> {"sort_by", "sort_order", "time_range", "offset", "limit"}]
      [] name = "get_wallet_profile" ->
           [required |-> {"wallet"}, optional |-> {"offset", "limit"}]
      [] name = "get_token_metrics" ->
           [required |-> {"blockchain", "token_address"}, optional |-> {"offset", "limit"}]
      [] name = "get_token_price_prediction" ->
           [required |-> {"token_address"}, optional |-> {"offset", "limit"}]
      [] name = "get_token_dex_price" ->
           [required |-> {"blockchain", "token_address"},
            optional |-> {"time_range", "offset", "limit"}]
      [] name \in {"get_defi_portfolio", "get_erc20_portfolio"} ->
           [required |-> {"address", "blockchain"},
            optional |-> {"time_range", "offset", "limit"}]
      [] name = "get_nft_portfolio" ->
           [required |-> {"wallet", "blockchain"},
            optional |-> {"time_range", "offset", "limit"}]
      [] name = "get_wallet_label" ->
           [required |-> {"address"}, optional |-> {"offset", "limit"}]
      [] name = "get_wallet_score" ->
           [required |-> {}, optional |-> {"time_range", "offset", "limit"}]
      [] name = "get_wallet_metrics" ->
           [required |-> {"blockchain", "wallet"},
            optional |-> {"time_range", "offset", "limit"}]
      [] name = "get_supported_collections" -> [required |-> {}, optional |-> {}]

(***************************************************************************)
(* What the handlers and the dispatchers return.                           *)
(***************************************************************************)
\* requests.get(...).raise_for_status(): passes, or raises a
\* requests.exceptions.RequestException (no connection, or a status >= 400)
HttpOutcomes == {"ok", "RequestException"}

\* f"API request failed: {str(e)}" / f"Failed to get ...: {str(e)}"
RequestFailedMsg(a) ==
    IF a = "portfolio" THEN "Failed to get portfolio data: 503 Server Error"
                       ELSE "API request failed: 503 Server Error"

\* the handler's return value after its one requests.get
HandlerResult(a, name, http) ==
    IF http = "ok"
    THEN IF a = "portfolio"
         THEN {<<"success", "true">>, <<"data", name>>, <<"summary", "Retrieved">>}
         ELSE {<<"data", name>>}
    ELSE IF a = "portfolio"
         THEN {<<"success", "false">>, <<"error", RequestFailedMsg(a)>>}
         ELSE {<<"error", RequestFailedMsg(a)>>}

\* {"error": f"Unknown function: {function_name}"}
UnknownFunction(name) ==
    {<<"error", IF name = "no_such_tool" THEN "Unknown function: no_such_tool"
                ELSE "Unknown function">>}

\* UnknownRoutingFunction without the name, under the "response" key
UnknownRoutingFunctionAsResponse(name) == {<<"response", "Unknown routing function">>}
\* {"error": f"Unknown routing function: {function_name}"}
UnknownRoutingFunction(name) ==
    {<<"error", IF name = "route_to_nowhere" THEN "Unknown routing function: route_to_nowhere"
                ELSE "Unknown routing function">>}

AgentName(a) == a
\* SingleOutcome with an error string returned by the agent's chat filed
\* under the "error" key
SingleOutcomeSortsErrors(a, query, reason, result) ==
    IF result \in ErrorStrings
    THEN {<<"agent", AgentName(a)>>, <<"query", query>>, <<"reason", reason>>,
          <<"error", result>>}
    ELSE {<<"agent", AgentName(a)>>, <<"query", query>>, <<"reason", reason>>,
          <<"response", result>>}
\* what route_to_<x>_agent returns when the agent's chat returned
SingleOutcome(a, query, reason, result) ==
    {<<"agent", AgentName(a)>>, <<"query", query>>, <<"reason", reason>>,
     <<"response", result>>}
\* f"Gaming agent error: {str(e)}" ... : the except clause of route_to_<x>_agent
AgentErrorMsg(a, e) ==
    CASE a = "gaming" -> "Gaming agent error: " \o e
      [] a = "price_estimation" -> "Price agent error: " \o e
      [] a = "brand" -> "Brand agent error: " \o e
      [] a = "defi" -> "DeFi agent error: " \o e
      [] a = "fungible" -> "Fungible token agent error: " \o e
      [] a = "wallet" -> "Wallet analytics agent error: " \o e
      [] a = "token" -> "Token analytics agent error: " \o e
      [] a = "portfolio" -> "Portfolio analysis agent error: " \o e
\* what route_to_<x>_agent returns when the agent's chat raised e
SingleFailure(a, query, reason, e) ==
    {<<"agent", AgentName(a)>>, <<"query", query>>, <<"reason", reason>>,
     <<"error", AgentErrorMsg(a, e)>>}
\* what route_to_both_agents returns when one of the chats raised e
BothFailure(gaming_query, price_query, reason, e) ==
    {<<"agent", "both">>, <<"gaming_query", gaming_query>>,
     <<"price_query", price_query>>, <<"reason", reason>>,
     <<"error", "Both agents error: " \o e>>}
\* BothOutcome with the price agent's response alone (the gaming agent's
\* being left to a turn of its own)
BothOutcomePriceOnly(gaming_query, price_query, reason, gaming_result, price_result) ==
    {<<"agent", "both">>, <<"gaming_query", gaming_query>>,
     <<"price_query", price_query>>, <<"reason", reason>>,
     <<"price_response", price_result>>}
\* what route_to_both_agents returns when both chats returned
BothOutcome(gaming_query, price_query, reason, gaming_result, price_result) ==
    {<<"agent", "both">>, <<"gaming_query", gaming_query>>,
     <<"price_query", price_query>>, <<"reason", reason>>,
     <<"gaming_response", gaming_result>>, <<"price_response", price_result>>}


(***************************************************************************)
(* The environment: what the decision service may answer.                  *)
(***************************************************************************)
\* the call ids of a batch of n requests: distinct, not in the order of the
\* requests, and not those of the other thread
CallId(n, k) == n + 1 - k + (IF orch.slot = 1 THEN 0 ELSE 10)

Request(id, name, arguments) == [id |-> id, name |-> name, arguments |-> arguments]

Batches(offers, limit) ==
    UNION {
        {[k \in 1..n |-> Request(CallId(n, k), f[k][1], f[k][2])] :
            f \in [1..n -> offers]} :
        n \in 1..limit}

\* routing: two single-agent functions, the combined one and a name that
\* execute_routing_call has no branch for; argument texts that fit a
\* single-agent function and that fit the combined function (each a misfit
\* for the other kind), and one that is not JSON (json.loads runs before the
\* name is looked at, so one name carries it)
SingleArgs == {<<"query", "sub-query 1">>, <<"reason", "because">>}
BothArgs ==
    {<<"gaming_query", "sub-query 1">>, <<"price_query", "sub-query 2">>,
     <<"reason", "because">>}
OfferedRoutes ==
    {"route_to_gaming_agent", "route_to_brand_agent", BothRoute, "route_to_nowhere"}
RoutingOffers ==
    ((OfferedRoutes \ {"route_to_nowhere"}) \X {JsonDumps(SingleArgs), JsonDumps(BothArgs)})
    \cup {<<"route_to_nowhere", JsonDumps(SingleArgs)>>, <<"route_to_gaming_agent", NotJson>>,
          <<"route_to_price_agent", JsonDumps(SingleArgs)>>}
\* in the scenarios "live" and "replay": one single-agent function with a fitting text, the
\* combined one with a fitting text, the name without a branch, a misfit
\* and a text that is not JSON
LiveRoutingOffers ==
    {<<"route_to_brand_agent", JsonDumps(SingleArgs)>>,
     <<BothRoute, JsonDumps(BothArgs)>>,
     <<"route_to_nowhere", JsonDumps(SingleArgs)>>,
     <<"route_to_gaming_agent", JsonDumps(BothArgs)>>,
     <<"route_to_gaming_agent", NotJson>>}
RoutingBatches ==
    Batches(IF orch.scenario \in {"live", "replay"} THEN LiveRoutingOffers
                                                    ELSE RoutingOffers,
            EntryLimit)

\* tools: per agent one handler that has a required parameter (when it has
\* such a handler) and a name its dispatcher has no branch for; argument
\* texts that are not JSON, that fit, that lack the required parameters and
\* that carry a key the handler does not take
OfferedTool(a) ==
    CASE a = "gaming" -> "get_nft_gaming_metrics_by_game"
      [] a = "brand" -> "get_brand_details"
      [] a = "defi" -> "get_dex_pool_metadata"
      [] a = "fungible" -> "get_historical_price"
      [] a = "wallet" -> "get_wallet_analytics"
      [] a = "token" -> "get_token_metrics"
      [] a = "portfolio" -> "get_defi_portfolio"
      [] a = "price_estimation" -> "get_supported_collections"
FittingArgs(name) == {<<k, "value">> : k \in Signature(name).required}
ToolOffers(a) ==
    ({OfferedTool(a)} \X
        {NotJson, JsonDumps(FittingArgs(OfferedTool(a))), JsonDumps({}),
         JsonDumps(FittingArgs(OfferedTool(a)) \cup {<<"bogus", "value">>})})
    \cup {<<"no_such_tool", JsonDumps({})>>}
\* to an agent run under the orchestrator: the fitting text, the text that
\* lacks the required parameters and the name without a branch
NestedToolOffers(a) ==
    ({OfferedTool(a)} \X {JsonDumps(FittingArgs(OfferedTool(a))), JsonDumps({})})
    \cup {<<"no_such_tool", JsonDumps({})>>}
ToolBatches(a, limit) ==
    Batches(IF orch.frame.pc = "idle" THEN ToolOffers(a) ELSE NestedToolOffers(a), limit)

(***************************************************************************)
(* State.                                                                  *)
(***************************************************************************)
IdleFrame ==
    [pc |-> "idle", user_message |-> NoValue, messages |-> << >>,
     tool_calls |-> << >>, i |-> 0, result |-> NoValue]

\* EnteredFrame with the conversation kept on the instance: the user turns of
\* the calls served before are still in it
EnteredFrameKeepsHistory(who, user_message) ==
    [pc |-> "decide", user_message |-> user_message,
     messages |-> <<SystemTurn(who)>>
                    \o [k \in 1..Len(orch.served) |-> UserTurn(orch.served[k])]
                    \o <<UserTurn(user_message)>>,
     tool_calls |-> << >>, i |-> 0, result |-> NoValue]

\* EnteredFrame with one more system turn for every call served before
EnteredFrameCountsCalls(who, user_message) ==
    [pc |-> "decide", user_message |-> user_message,
     messages |-> InitialMessages(who, user_message)
                    \o [k \in 1..Len(orch.served) |-> SystemTurn(who)],
     tool_calls |-> << >>, i |-> 0, result |-> NoValue]

\* the frame of chat(user_message) on entry to its try block, before the
\* first decision-service call
EnteredFrame(who, user_message) ==
    [pc |-> "decide", user_message |-> user_message,
     messages |-> InitialMessages(who, user_message),
     tool_calls |-> << >>, i |-> 0, result |-> NoValue]

\* probe: what an observer outside the code sees
\*   rounds          the decision service's answers to the orchestrator, in order
\*   runs            the entries to and returns from the agents' chat, in order
\*   agent_rounds    per agent, the decision service's answers to its current run
\*   dispatched      per agent, the call ids handed to its dispatcher in this run
\*   http            per agent, the outcomes of the HTTP GETs of this run
\*   faults          the agents whose chat raised, in order
\*   answers         (scenario "replay") all that the call got from outside,
\*                   in order: the decision service's answers to the
\*                   orchestrator and to the agents, the HTTP outcomes, the
\*                   faults of agents
\*   invocations     (scenario "replay") the agents' chats entered and the
\*                   dispatcher calls made, in order
FreshProbe ==
    [rounds |-> << >>, runs |-> << >>, faults |-> << >>,
     answers |-> << >>, invocations |-> << >>,
     agent_rounds |-> [a \in Agents |-> << >>],
     dispatched |-> [a \in Agents |-> << >>],
     http |-> [a \in Agents |-> << >>]]

\* self.base_url of the agents that have one
BaseUrl(a) ==
    CASE a = "gaming" -> "https://api.unleashnfts.com/api/v2/nft/gaming"
      [] a = "brand" -> "https://api.unleashnfts.com/api/v1/brand"
      [] a = "defi" -> "https://api.unleashnfts.com/api/v1/defi/pool"
      [] a = "fungible" -> "https://api.unleashnfts.com/api/v1/ft"
      [] a = "wallet" -> "https://api.unleashnfts.com/api/v2/nft/wallet"
      [] a = "token" -> "https://api.unleashnfts.com/api/v2/token"
      [] OTHER -> NoValue

\* the attributes of the orchestrator and of its agents after __init__: the
\* orchestrator's verbose flag and the names in its routing_tools; per agent
\* the names in its tools, its base_url and its api_key (os.getenv)
ConstructedInstance ==
    [verbose |-> TRUE,
     routing_tools |-> SingleRoutes \cup {BothRoute},
     tools |-> [a \in Agents |-> Handlers(a)],
     base_url |-> [a \in Agents |-> BaseUrl(a)],
     api_key |-> [a \in Agents |-> "UNLEASH_API_KEY"],
     agents_verbose |-> [a \in Agents |-> TRUE]]

\* WithVerbose with the routing tool list emptied when the flag is off
WithVerboseOverTools(instance, verbose) ==
    [instance EXCEPT !.verbose = verbose,
                     !.routing_tools = IF verbose THEN @ ELSE {}]

\* WithVerbose with the assignment left out
WithVerboseNotWritten(instance, verbose) == instance

\* orchestrator.verbose = request.verbose
WithVerbose(instance, verbose) == [instance EXCEPT !.verbose = verbose]

\* ChatRequest.verbose: its default; in the scenario of successive calls
\* either value; in the scenario of two threads the default in the request
\* of the first and false in the request of the second
Verbosities ==
    CASE orch.scenario = "calls" -> BOOLEAN
      [] orch.scenario = "concurrent" -> {orch.slot = 1}
      [] OTHER -> {TRUE}

\* ChatRequest(message, verbose), with the call of its handler's try block
\* that raised ("" while none has) and whether the other thread's chat was
\* under way when the handler started, and the request of a thread that has
\* received none
ChatRequest(message, verbose) ==
    [message |-> message, verbose |-> verbose, raised |-> "",
     overlaps |-> orch.parked.frame.pc # "idle"]
NoRequest == [message |-> NoValue, verbose |-> TRUE, raised |-> "", overlaps |-> FALSE]

\* no ChatResponse: before the first POST /chat, and while one is served
NoResponse ==
    [response |-> "", agent_used |-> NoValue, query |-> NoValue,
     reason |-> NoValue, success |-> FALSE, error |-> NoValue]

\* the locals of a thread that has not started its call
ParkedIdle ==
    [frame |-> IdleFrame, gaming_result |-> NoValue, response |-> NoResponse,
     request |-> NoRequest,
     agent |-> [a \in Agents |-> IdleFrame], probe |-> FreshProbe]

\* orch: the frame of NFTOrchestrator.chat, the local gaming_result of
\* route_to_both_agents, the module's orchestrator_instance and the
\* ChatResponse the endpoint returned last, the attributes of the instances;
\* for observation, the scenario,
\* the queries of the calls served before (scenario "calls"), the thread
\* that runs and the locals of the other thread (scenario "concurrent")
Init ==
    /\ orch = [frame |-> IdleFrame, gaming_result |-> NoValue,
               orchestrator_instance |-> "None", response |-> NoResponse,
               scenario |-> "protocol", served |-> << >>,
               slot |-> 1, parked |-> ParkedIdle,
               instance |-> ConstructedInstance,
               constructions |-> 0, get_orchestrator |-> NoValue,
               request |-> NoRequest]
    /\ agent = [a \in Agents |-> IdleFrame]
    /\ probe = FreshProbe

\* the same server, observed over successive calls
InitCalls ==
    /\ orch = [frame |-> IdleFrame, gaming_result |-> NoValue,
               orchestrator_instance |-> "None", response |-> NoResponse,
               scenario |-> "calls", served |-> << >>,
               slot |-> 1, parked |-> ParkedIdle,
               instance |-> ConstructedInstance,
               constructions |-> 0, get_orchestrator |-> NoValue,
               request |-> NoRequest]
    /\ agent = [a \in Agents |-> IdleFrame]
    /\ probe = FreshProbe

\* the same server with two threads, each to serve one call
InitConcurrent ==
    /\ orch = [frame |-> IdleFrame, gaming_result |-> NoValue,
               orchestrator_instance |-> "None", response |-> NoResponse,
               scenario |-> "concurrent", served |-> << >>,
               slot |-> 1, parked |-> ParkedIdle,
               instance |-> ConstructedInstance,
               constructions |-> 0, get_orchestrator |-> NoValue,
               request |-> NoRequest]
    /\ agent = [a \in Agents |-> IdleFrame]
    /\ probe = FreshProbe

\* the frame after `return value`
Returned(frame, value) == [frame EXCEPT !.pc = "returned", !.result = value]
\* the frame of a chat call that an exception has left
Raised(frame, e) == [frame EXCEPT !.pc = "raised", !.result = e]
\* Failed with an exception of the loop body turned into the entry's
\* tool-result turn, the loop going on
FailedEntryRecorded(frame, e) ==
    IF frame.pc = "dispatch"
    THEN [frame EXCEPT !.messages =
                          Append(@, Turn("tool", frame.tool_calls[frame.i].id,
                                         JsonDumps({<<"error", ErrorMsg(e)>>}), << >>)),
                       !.i = @ + 1,
                       !.pc = IF frame.i = Len(frame.tool_calls) THEN "synthesize"
                                                                 ELSE "dispatch"]
    ELSE Returned(frame, ErrorMsg(e))
\* the frame after the except clause of chat: return f"An error occurred: ..."
Failed(frame, e) == Returned(frame, ErrorMsg(e))


(***************************************************************************)
(* Observation: the calls made to the collaborators and the agent runs.    *)
(***************************************************************************)
Heard(p, who, kind, text, calls) ==
    IF orch.scenario = "replay"
    THEN [p EXCEPT !.answers =
                     Append(@, [who |-> who, kind |-> kind, text |-> text, calls |-> calls])]
    ELSE p
Invoked(p, who, name, arguments) ==
    IF orch.scenario = "replay"
    THEN [p EXCEPT !.invocations =
                     Append(@, [who |-> who, name |-> name, arguments |-> arguments])]
    ELSE p
RunStarts(p, a) ==
    Invoked([p EXCEPT !.runs = Append(@, <<"start", a>>), !.agent_rounds[a] = << >>,
                      !.dispatched[a] = << >>, !.http[a] = << >>],
            a, "chat", {})
RunEnds(p, a) == [p EXCEPT !.runs = Append(@, <<"end", a>>)]
\* the caller has the agent's result: the record of that run is dropped
RunCollected(p, a) ==
    [p EXCEPT !.agent_rounds[a] = << >>, !.dispatched[a] = << >>, !.http[a] = << >>]
\* an answer of the decision service: kind is "error" (the call raised),
\* "direct" (round 1, text and no tool_calls), "invocations" (round 1,
\* tool_calls) or "final" (round 2, text)
Answer(kind, text) == [kind |-> kind, text |-> text]
AgentAsksDecisionService(p, a, answer) ==
    Heard([p EXCEPT !.agent_rounds[a] = Append(@, answer)],
          a, answer.kind, answer.text, << >>)
OrchestratorAsksDecisionService(p, answer) ==
    Heard([p EXCEPT !.rounds = Append(@, answer)],
          "orchestrator", answer.kind, answer.text, << >>)

(***************************************************************************)
(* An agent's chat (the seven agent classes have the same body).           *)
(***************************************************************************)
\* EnterAgent with the orchestrator's user message passed on instead of the
\* sub-query
EnterAgentWithUserMessage(ag, a, user_message) ==
    [ag EXCEPT ![a] = EnteredFrame(a, orch.frame.user_message)]

\* <agent>.chat(user_message) is entered
EnterAgent(ag, a, user_message) == [ag EXCEPT ![a] = EnteredFrame(a, user_message)]

\* AgentDecideFails with the exception swallowed and the run carried on
AgentDecideFailsContinues(a) ==
    /\ agent[a].pc = "decide"
    /\ agent' = [agent EXCEPT ![a].pc = "synthesize"]
    /\ probe' = AgentAsksDecisionService(probe, a, Answer("error", ""))
    /\ UNCHANGED orch

\* the texts the decision service may answer an agent with: any text to an
\* agent run from its own command loop, one text to an agent run under the
\* orchestrator (its error strings make the other results of such a run)
AgentTexts == IF orch.frame.pc = "idle" THEN Texts ELSE {"text A"}

\* round 1 raises: except Exception -> return the error string
AgentDecideFails(a) ==
    /\ agent[a].pc = "decide"
    /\ agent' = [agent EXCEPT ![a] = Failed(@, "DecisionServiceError")]
    /\ probe' = RunEnds(AgentAsksDecisionService(probe, a, Answer("error", "")), a)
    /\ UNCHANGED orch

\* an agent's chat raises: the statements of chat before its try block (the
\* prints of the verbose mode) are outside the except clause, and the chat
\* of NFTPriceEstimateAgent, whose class is not among the sources, may raise
\* anywhere.  Observed for the two agents of the combined operation, run
\* under the orchestrator.
AgentFault == "price agent fault"
FaultyAgents == {"gaming", "price_estimation"}
AgentChatRaises(a) ==
    /\ a \in FaultyAgents
    /\ orch.frame.pc # "idle"
    /\ agent[a].pc = "decide"
    /\ agent' = [agent EXCEPT ![a] = Raised(@, AgentFault)]
    /\ probe' = Heard([RunEnds(probe, a) EXCEPT !.faults = Append(@, a)],
                      a, "fault", AgentFault, << >>)
    /\ UNCHANGED orch

\* round 1 returns no tool_calls: return direct_response
AgentDecideDirect(a) ==
    /\ agent[a].pc = "decide"
    /\ \E text \in AgentTexts :
         /\ agent' = [agent EXCEPT ![a] = Returned(@, text)]
         /\ probe' = RunEnds(AgentAsksDecisionService(probe, a, Answer("direct", text)), a)
    /\ UNCHANGED orch

\* round 1 returns tool_calls: messages.append(response.choices[0].message)
AgentDecideInvocations(a) ==
    /\ agent[a].pc = "decide"
    /\ \E calls \in ToolBatches(a, IF orch.frame.pc = "idle" THEN MaxTools
                                                              ELSE NestedToolLimit) :
         /\ agent' = [agent EXCEPT ![a] =
                        [@ EXCEPT !.pc = "dispatch",
                                  !.messages = Append(@, AssistantTurn(calls)),
                                  !.tool_calls = calls, !.i = 1]]
         /\ probe' = Heard(AgentAsksDecisionService(probe, a, Answer("invocations", "")),
                           a, "tool_calls", "", calls)
    /\ UNCHANGED orch

\* ExecuteFunctionCall with handlers that let the RequestException escape
ExecuteFunctionCallHttpRaises(a, function_name, arguments, http) ==
    IF function_name \notin Handlers(a)
    THEN [raises |-> "", result |-> UnknownFunction(function_name), gets |-> 0]
    ELSE IF BindRaises(Signature(function_name), arguments)
    THEN [raises |-> "TypeError", result |-> {}, gets |-> 0]
    ELSE IF http = "ok"
    THEN [raises |-> "", result |-> HandlerResult(a, function_name, http), gets |-> 1]
    ELSE [raises |-> "RequestException", result |-> {}, gets |-> 1]

\* ExecuteFunctionCall with a table lookup that raises for a name without a
\* handler instead of the final else branch
ExecuteFunctionCallUnknownRaises(a, function_name, arguments, http) ==
    IF function_name \notin Handlers(a)
    THEN [raises |-> "KeyError", result |-> {}, gets |-> 0]
    ELSE IF BindRaises(Signature(function_name), arguments)
    THEN [raises |-> "TypeError", result |-> {}, gets |-> 0]
    ELSE [raises |-> "", result |-> HandlerResult(a, function_name, http), gets |-> 1]

\* ExecuteFunctionCall with a dispatcher that keeps the names it was called
\* with and refuses a name it has seen
ExecuteFunctionCallRemembers(a, function_name, arguments, http) ==
    IF orch.bench.outcomes # << >>
    THEN [raises |-> "", result |-> {<<"error", "Already called">>}, gets |-> 0]
    ELSE IF function_name \notin Handlers(a)
    THEN [raises |-> "", result |-> UnknownFunction(function_name), gets |-> 0]
    ELSE IF BindRaises(Signature(function_name), arguments)
    THEN [raises |-> "TypeError", result |-> {}, gets |-> 0]
    ELSE [raises |-> "", result |-> HandlerResult(a, function_name, http), gets |-> 1]

\* execute_function_call(function_name, arguments), the handler's HTTP answer
\* being http: the exception that escapes it (or none), the value it returns
\* and the number of HTTP GETs it performs
ExecuteFunctionCall(a, function_name, arguments, http) ==
    IF function_name \notin Handlers(a)
    THEN [raises |-> "", result |-> UnknownFunction(function_name), gets |-> 0]
    ELSE IF BindRaises(Signature(function_name), arguments)
    THEN [raises |-> "TypeError", result |-> {}, gets |-> 0]
    ELSE [raises |-> "", result |-> HandlerResult(a, function_name, http), gets |-> 1]

\* Appended with the append skipped for a result that carries an error
AppendedUnlessError(frame, turn) ==
    [frame EXCEPT !.messages = IF "error" \in Keys(turn.content.obj) THEN @
                                                                      ELSE Append(@, turn),
                  !.i = @ + 1,
                  !.pc = IF frame.i = Len(frame.tool_calls) THEN "synthesize"
                                                            ELSE "dispatch"]

\* Appended with the turn inserted at the head of the list
AppendedInFront(frame, turn) ==
    [frame EXCEPT !.messages = <<turn>> \o @,
                  !.i = @ + 1,
                  !.pc = IF frame.i = Len(frame.tool_calls) THEN "synthesize"
                                                            ELSE "dispatch"]

\* the frame after one pass of a loop body appended `turn`
Appended(frame, turn) ==
    [frame EXCEPT !.messages = Append(@, turn),
                  !.i = @ + 1,
                  !.pc = IF frame.i = Len(frame.tool_calls) THEN "synthesize"
                                                            ELSE "dispatch"]

\* one pass of `for i, tool_call in enumerate(...tool_calls)`
AgentToolCall(a) ==
    /\ agent[a].pc = "dispatch"
    /\ LET tool_call == agent[a].tool_calls[agent[a].i] IN
       IF JsonLoadsRaises(tool_call.arguments)
       THEN /\ agent' = [agent EXCEPT ![a] = Failed(@, "JSONDecodeError")]
            /\ probe' = RunEnds(probe, a)
       ELSE \E http \in HttpOutcomes :
              LET r == ExecuteFunctionCall(a, tool_call.name,
                                           JsonLoads(tool_call.arguments), http)
                  d == Invoked([probe EXCEPT !.dispatched[a] = Append(@, tool_call.id),
                                             !.http[a] = IF r.gets = 1 THEN Append(@, http)
                                                                       ELSE @],
                               a, tool_call.name, JsonLoads(tool_call.arguments))
                  p == IF r.gets = 1 THEN Heard(d, a, "http", http, << >>) ELSE d
              IN IF r.raises # ""
                 THEN /\ agent' = [agent EXCEPT ![a] = Failed(@, r.raises)]
                      /\ probe' = RunEnds(p, a)
                 ELSE /\ agent' = [agent EXCEPT ![a] =
                                     Appended(@, ToolTurn(tool_call.id, r.result))]
                      /\ probe' = p
    /\ UNCHANGED orch

\* round 2 raises
AgentSynthesizeFails(a) ==
    /\ agent[a].pc = "synthesize"
    /\ agent' = [agent EXCEPT ![a] = Failed(@, "DecisionServiceError")]
    /\ probe' = RunEnds(AgentAsksDecisionService(probe, a, Answer("error", "")), a)
    /\ UNCHANGED orch

\* round 2 answers: return final_content
AgentSynthesize(a) ==
    /\ agent[a].pc = "synthesize"
    /\ \E text \in AgentTexts :
         /\ agent' = [agent EXCEPT ![a] = Returned(@, text)]
         /\ probe' = RunEnds(AgentAsksDecisionService(probe, a, Answer("final", text)), a)
    /\ UNCHANGED orch

\* the agent file's command loop: response = agent.chat(user_input)
AgentMain(a) ==
    /\ a \in MainAgents
    /\ orch.frame.pc = "idle"
    /\ \A b \in Agents : agent[b].pc = "idle"
    /\ \E user_message \in UserQueries : agent' = EnterAgent(agent, a, user_message)
    /\ probe' = RunStarts(FreshProbe, a)
    /\ UNCHANGED orch

\* the command loop prints the response
AgentMainReturns(a) ==
    /\ orch.frame.pc = "idle"
    /\ agent[a].pc = "returned"
    /\ agent' = [agent EXCEPT ![a] = IdleFrame]
    /\ probe' = RunCollected(probe, a)
    /\ UNCHANGED orch


(***************************************************************************)
(* NFTOrchestrator.chat                                                    *)
(***************************************************************************)
\* the markers chat_endpoint looks for in the response text; the texts of
\* this model carry none
Markers(response) == {}
\* chat_endpoint: the if/elif chain that guesses the agent from the text
AgentUsed(response) ==
    CASE {"game pad", "Gaming"} \subseteq Markers(response) -> "gaming"
      [] {"money bag", "Price"} \subseteq Markers(response) -> "price_estimation"
      [] {"label", "Brand"} \subseteq Markers(response) -> "brand"
      [] {"arrows", "DeFi"} \subseteq Markers(response) -> "defi"
      [] {"coin", "Fungible"} \subseteq Markers(response) -> "fungible"
      [] {"briefcase", "Wallet"} \subseteq Markers(response) -> "wallet"
      [] {"coin", "Token"} \subseteq Markers(response) -> "token"
      [] {"briefcase", "Portfolio"} \subseteq Markers(response) -> "portfolio"
      [] "Multi-Agent" \in Markers(response) -> "multiple"
      [] OTHER -> "unknown"

\* chat_endpoint: the reason it reports for the agent it guessed
RoutedReason(agent_used) ==
    CASE agent_used = "unknown" -> "Query processed by orchestrator"
      [] agent_used = "multiple" -> "Query processed by multiple agents"
      [] OTHER -> "Query routed to agent " \o agent_used

\* a ChatResponse whose response is the text under a heading of the endpoint
SuccessResponseUnderHeading(message, response) ==
    [response |-> "**Response** " \o response, agent_used |-> AgentUsed(response),
     query |-> message, reason |-> RoutedReason(AgentUsed(response)),
     success |-> TRUE, error |-> NoValue]

\* SuccessResponse with success = false for an error string returned by chat
SuccessResponseFlagsErrors(message, response) ==
    [response |-> response, agent_used |-> AgentUsed(response), query |-> message,
     reason |-> RoutedReason(AgentUsed(response)),
     success |-> response \notin ErrorStrings, error |-> NoValue]
\* chat_endpoint: the ChatResponse of its try block
SuccessResponse(message, response) ==
    [response |-> response, agent_used |-> AgentUsed(response), query |-> message,
     reason |-> RoutedReason(AgentUsed(response)), success |-> TRUE, error |-> NoValue]
\* chat_endpoint: the ChatResponse of its except clause
FailureResponse(message, e) ==
    [response |-> "", agent_used |-> "error", query |-> message,
     reason |-> "Error occurred during processing", success |-> FALSE, error |-> e]

\* str(HTTPException(status_code=500, detail=...)) of get_orchestrator
InitFailed == "500: Failed to initialize orchestrator: OPENAI_API_KEY not found in .env file"

\* get_orchestrator with the test of the stored instance left out
GetOrchestratorConstructsAnew(stored, env_ok) ==
    IF env_ok
    THEN [instance |-> "stored", constructed |-> 1, outcome |-> "instance"]
    ELSE [instance |-> "None", constructed |-> 0, outcome |-> "HTTPException 500"]

\* get_orchestrator: the stored instance is returned; with none stored,
\* NFTOrchestrator(verbose=True) is constructed and stored, or its ValueError
\* (no OPENAI_API_KEY in the environment) is raised on as HTTPException 500,
\* nothing being stored
GetOrchestrator(stored, env_ok) ==
    IF stored # "None"
    THEN [instance |-> stored, constructed |-> 0, outcome |-> "instance"]
    ELSE IF env_ok
    THEN [instance |-> "stored", constructed |-> 1, outcome |-> "instance"]
    ELSE [instance |-> "None", constructed |-> 0, outcome |-> "HTTPException 500"]

\* the globals after a call of get_orchestrator that had the result r
Got(o, r) ==
    [o EXCEPT !.orchestrator_instance = r.instance,
              !.constructions = @ + r.constructed,
              !.get_orchestrator = r.outcome]

\* GET /health: get_orchestrator is called and its instance is not used; the
\* answer is HealthResponse or, get_orchestrator having raised, HTTP 503
HealthCheck ==
    /\ orch.frame.pc = "idle"
    /\ \A a \in Agents : agent[a].pc = "idle"
    /\ \E env_ok \in BOOLEAN :
         orch' = Got(orch, GetOrchestrator(orch.orchestrator_instance, env_ok))
    /\ UNCHANGED <<agent, probe>>

\* POST /chat: get_orchestrator returns the stored instance or stores a new
\* one, the request's verbose flag is put on it and chat(request.message) is
\* entered
Chat ==
    /\ orch.frame.pc = "idle"
    /\ \A a \in Agents : agent[a].pc = "idle"
    /\ Len(orch.served) < CallLimit
    /\ orch.scenario = "concurrent" => orch.response = NoResponse
    /\ \E user_message \in Queries, verbose \in Verbosities :
         LET r == GetOrchestrator(orch.orchestrator_instance, TRUE) IN
         /\ r.outcome = "instance"
         /\ orch' = [Got(orch, r) EXCEPT
                              !.frame = EnteredFrame("orchestrator", user_message),
                              !.gaming_result = NoValue,
                              !.instance = WithVerbose(@, verbose),
                              !.request = ChatRequest(user_message, verbose),
                              !.response = NoResponse]
    /\ probe' = FreshProbe
    /\ UNCHANGED agent

\* POST /chat: no instance is stored and NFTOrchestrator() raises ValueError;
\* get_orchestrator raises HTTPException and the except clause answers
ChatEndpointFails ==
    /\ orch.frame.pc = "idle"
    /\ \A a \in Agents : agent[a].pc = "idle"
    /\ orch.scenario = "concurrent" => orch.response = NoResponse
    /\ \E user_message \in Queries, verbose \in Verbosities :
         LET r == GetOrchestrator(orch.orchestrator_instance, FALSE) IN
         /\ r.outcome = "HTTPException 500"
         /\ orch' = [Got(orch, r) EXCEPT
                              !.request = [ChatRequest(user_message, verbose)
                                            EXCEPT !.raised = "get_orchestrator"],
                              !.response = FailureResponse(user_message, InitFailed)]
    /\ probe' = FreshProbe
    /\ UNCHANGED agent

\* POST /chat with the verbose flag on: a print of chat before its try block
\* raises; the exception leaves chat and the except clause of chat_endpoint
\* answers
ChatFault == "orchestrator chat fault"
ChatRaisesBeforeTry ==
    /\ orch.frame.pc = "idle"
    /\ \A a \in Agents : agent[a].pc = "idle"
    /\ Len(orch.served) < CallLimit
    /\ orch.scenario = "concurrent" => orch.response = NoResponse
    /\ \E user_message \in Queries, verbose \in Verbosities :
         LET r == GetOrchestrator(orch.orchestrator_instance, TRUE) IN
         /\ r.outcome = "instance"
         /\ verbose
         /\ orch' = [Got(orch, r) EXCEPT
                              !.instance = WithVerbose(@, verbose),
                              !.request = [ChatRequest(user_message, verbose)
                                            EXCEPT !.raised = "orchestrator.chat"],
                              !.response = FailureResponse(user_message, ChatFault)]
    /\ probe' = FreshProbe
    /\ UNCHANGED agent

\* RouteFails with the exception swallowed and the chat carried on
RouteFailsContinues ==
    /\ orch.frame.pc = "decide"
    /\ orch' = [orch EXCEPT !.frame.pc = "synthesize"]
    /\ probe' = OrchestratorAsksDecisionService(probe, Answer("error", ""))
    /\ UNCHANGED agent

\* the routing call raises: except Exception -> return the error string
RouteFails ==
    /\ orch.frame.pc = "decide"
    /\ orch' = [orch EXCEPT !.frame = Failed(@, "DecisionServiceError")]
    /\ probe' = OrchestratorAsksDecisionService(probe, Answer("error", ""))
    /\ UNCHANGED agent

\* DirectResponse with the content of the message lost
DirectResponseDropsContent(content) == ""

\* the value chat returns when the routing call returned text and no tool_calls
DirectResponse(content) == content

\* the routing call returns no tool_calls: return direct_response
RouteDirect ==
    /\ orch.frame.pc = "decide"
    /\ \E text \in Texts :
         /\ orch' = [orch EXCEPT !.frame = Returned(@, DirectResponse(text))]
         /\ probe' = OrchestratorAsksDecisionService(probe, Answer("direct", text))
    /\ UNCHANGED agent

\* the routing call returns tool_calls
RouteInvocations ==
    /\ orch.frame.pc = "decide"
    /\ \E calls \in RoutingBatches :
         /\ orch' = [orch EXCEPT !.frame =
                       [@ EXCEPT !.pc = "dispatch",
                                 !.messages = Append(@, AssistantTurn(calls)),
                                 !.tool_calls = calls, !.i = 1]]
         /\ probe' = Heard(OrchestratorAsksDecisionService(probe,
                                                           Answer("invocations", "")),
                           "orchestrator", "tool_calls", "", calls)
    /\ UNCHANGED agent

\* RoutingCall with the entries taken from the end of the list
RoutingCallReversed ==
    orch.frame.tool_calls[Len(orch.frame.tool_calls) + 1 - orch.frame.i]

\* the routing entry the loop is at
RoutingCall == orch.frame.tool_calls[orch.frame.i]
RoutingArguments == JsonLoads(RoutingCall.arguments)

\* one pass of the loop, up to the agent's chat being entered (or, for a
\* name without a branch, to the end of the pass)
ExecuteRoutingCall ==
    /\ orch.frame.pc = "dispatch"
    /\ IF JsonLoadsRaises(RoutingCall.arguments)
       THEN /\ orch' = [orch EXCEPT !.frame = Failed(@, "JSONDecodeError")]
            /\ UNCHANGED <<agent, probe>>
       ELSE IF RoutingCall.name \in SingleRoutes
       THEN IF BindRaises(SingleSignature, RoutingArguments)
            THEN /\ orch' = [orch EXCEPT !.frame = Failed(@, "TypeError")]
                 /\ UNCHANGED <<agent, probe>>
            ELSE /\ orch' = [orch EXCEPT !.frame.pc = "in_agent"]
                 /\ agent' = EnterAgent(agent, RoutingTable[RoutingCall.name],
                                        Get(RoutingArguments, "query"))
                 /\ probe' = RunStarts(probe, RoutingTable[RoutingCall.name])
       ELSE IF RoutingCall.name = BothRoute
       THEN IF BindRaises(BothSignature, RoutingArguments)
            THEN /\ orch' = [orch EXCEPT !.frame = Failed(@, "TypeError")]
                 /\ UNCHANGED <<agent, probe>>
            ELSE /\ orch' = [orch EXCEPT !.frame.pc = "in_gaming"]
                 /\ agent' = EnterAgent(agent, "gaming",
                                        Get(RoutingArguments, "gaming_query"))
                 /\ probe' = RunStarts(probe, "gaming")
       ELSE /\ orch' = [orch EXCEPT !.frame =
                          Appended(@, ToolTurn(RoutingCall.id,
                                               UnknownRoutingFunction(RoutingCall.name)))]
            /\ UNCHANGED <<agent, probe>>

\* AgentFaultCaught with the exception leaving the routing function
AgentFaultEscapes(frame, id, outcome) == Failed(frame, "AgentError")

\* the frame after the except clause of a routing function returned the
\* failure outcome and the loop appended it as the entry's tool-result turn
AgentFaultCaught(frame, id, outcome) == Appended(frame, ToolTurn(id, outcome))

\* route_to_<x>_agent: the agent's chat returned or raised; the outcome is
\* appended
RouteToAgentReturns ==
    /\ orch.frame.pc = "in_agent"
    /\ LET a == RoutingTable[RoutingCall.name] IN
       /\ agent[a].pc \in {"returned", "raised"}
       /\ orch' = [orch EXCEPT !.frame =
                     IF agent[a].pc = "raised"
                     THEN AgentFaultCaught(@, RoutingCall.id,
                              SingleFailure(a, Get(RoutingArguments, "query"),
                                            Get(RoutingArguments, "reason"),
                                            agent[a].result))
                     ELSE Appended(@, ToolTurn(RoutingCall.id,
                                  SingleOutcome(a, Get(RoutingArguments, "query"),
                                                Get(RoutingArguments, "reason"),
                                                agent[a].result)))]
       /\ agent' = [agent EXCEPT ![a] = IdleFrame]
       /\ probe' = RunCollected(probe, a)

\* GamingCompleted with a wait for the gaming agent that never ends
GamingNeverCompletes == FALSE

\* GamingCompleted with the gaming agent's chat started and not awaited
GamingStarted == agent["gaming"].pc # "idle"

\* route_to_both_agents: when the price agent's chat may be entered
GamingCompleted == agent["gaming"].pc = "returned"

\* route_to_both_agents: gaming_result is bound, then time.sleep(1), then
\* the price agent's chat is entered
BothGamingReturns ==
    /\ orch.frame.pc = "in_gaming"
    /\ GamingCompleted
    /\ orch' = [orch EXCEPT !.frame.pc = "in_price",
                            !.gaming_result = agent["gaming"].result]
    /\ agent' = EnterAgent([agent EXCEPT !["gaming"] =
                              IF agent["gaming"].pc = "returned" THEN IdleFrame
                                                                 ELSE @],
                           "price_estimation", Get(RoutingArguments, "price_query"))
    /\ probe' = RunStarts(RunCollected(probe, "gaming"), "price_estimation")

\* the gaming agent's fault handled around the gaming call alone, the price
\* agent's chat being entered all the same
BothGamingRaisesPriceStillRuns ==
    /\ orch.frame.pc = "in_gaming"
    /\ agent["gaming"].pc = "raised"
    /\ orch' = [orch EXCEPT !.frame.pc = "in_price",
                            !.gaming_result = AgentErrorMsg("gaming", agent["gaming"].result)]
    /\ agent' = EnterAgent([agent EXCEPT !["gaming"] = IdleFrame],
                           "price_estimation", Get(RoutingArguments, "price_query"))
    /\ probe' = RunStarts(RunCollected(probe, "gaming"), "price_estimation")

\* route_to_both_agents: the gaming agent's chat raised; the except clause
\* returns the failure outcome, and the price agent's chat is not entered
BothGamingRaises ==
    /\ orch.frame.pc = "in_gaming"
    /\ agent["gaming"].pc = "raised"
    /\ orch' = [orch EXCEPT !.frame =
                  AgentFaultCaught(@, RoutingCall.id,
                      BothFailure(Get(RoutingArguments, "gaming_query"),
                                  Get(RoutingArguments, "price_query"),
                                  Get(RoutingArguments, "reason"),
                                  agent["gaming"].result))]
    /\ agent' = [agent EXCEPT !["gaming"] = IdleFrame]
    /\ probe' = RunCollected(probe, "gaming")

\* route_to_both_agents: price_result is bound; the outcome is appended
BothPriceReturns ==
    /\ orch.frame.pc = "in_price"
    /\ agent["price_estimation"].pc \in {"returned", "raised"}
    /\ orch' = [orch EXCEPT !.frame =
                  IF agent["price_estimation"].pc = "raised"
                  THEN AgentFaultCaught(@, RoutingCall.id,
                           BothFailure(Get(RoutingArguments, "gaming_query"),
                                       Get(RoutingArguments, "price_query"),
                                       Get(RoutingArguments, "reason"),
                                       agent["price_estimation"].result))
                  ELSE Appended(@, ToolTurn(RoutingCall.id,
                               BothOutcome(Get(RoutingArguments, "gaming_query"),
                                           Get(RoutingArguments, "price_query"),
                                           Get(RoutingArguments, "reason"),
                                           orch.gaming_result,
                                           agent["price_estimation"].result))),
                            !.gaming_result = NoValue]
    /\ agent' = [agent EXCEPT !["price_estimation"] = IdleFrame]
    /\ probe' = RunCollected(probe, "price_estimation")

\* the final call raises and is made again
SynthesizeFailsRetries ==
    /\ orch.frame.pc = "synthesize"
    /\ probe' = OrchestratorAsksDecisionService(probe, Answer("error", ""))
    /\ UNCHANGED <<orch, agent>>

\* SynthesizeFails with the tool-result turns taken back out of the
\* conversation
SynthesizeFailsDropsResults ==
    /\ orch.frame.pc = "synthesize"
    /\ orch' = [orch EXCEPT !.frame =
                  Failed([@ EXCEPT !.messages = SubSeq(@, 1, 3)], "DecisionServiceError")]
    /\ probe' = OrchestratorAsksDecisionService(probe, Answer("error", ""))
    /\ UNCHANGED agent

\* the final call raises
SynthesizeFails ==
    /\ orch.frame.pc = "synthesize"
    /\ orch' = [orch EXCEPT !.frame = Failed(@, "DecisionServiceError")]
    /\ probe' = OrchestratorAsksDecisionService(probe, Answer("error", ""))
    /\ UNCHANGED agent

\* routing_result.get(key, default)
GetOr(o, k, default) == IF k \in Keys(o) THEN Get(o, k) ELSE default

\* format_final_response: the template for one routing result, by its agent
FormatHeader(agent_type) ==
    CASE agent_type = "gaming" -> "**NFT Gaming Response** "
      [] agent_type = "price_estimation" -> "**NFT Price Estimation Response** "
      [] agent_type = "brand" -> "**NFT Brand Response** "
      [] agent_type = "defi" -> "**NFT DeFi Response** "
      [] agent_type = "fungible" -> "**NFT Fungible Token Response** "
      [] agent_type = "wallet" -> "**NFT Wallet Analytics Response** "
      [] agent_type = "token" -> "**NFT Token Analytics Response** "
      [] agent_type = "portfolio" -> "**Portfolio Analysis Response** "
FormatFooter(agent_type) ==
    CASE agent_type = "gaming" -> " --- *Processed by NFT Gaming Agent*"
      [] agent_type = "price_estimation" -> " --- *Processed by NFT Price Estimation Agent*"
      [] agent_type = "brand" -> " --- *Processed by NFT Brand Agent*"
      [] agent_type = "defi" -> " --- *Processed by NFT DeFi Agent*"
      [] agent_type = "fungible" -> " --- *Processed by NFT Fungible Token Agent*"
      [] agent_type = "wallet" -> " --- *Processed by NFT Wallet Analytics Agent*"
      [] agent_type = "token" -> " --- *Processed by NFT Token Analytics Agent*"
      [] agent_type = "portfolio" -> " --- *Processed by Portfolio Analysis Agent*"
FormattedAgents ==
    {"gaming", "price_estimation", "brand", "defi", "fungible", "wallet",
     "token", "portfolio"}
format_final_response(routing_result) ==
    LET agent_type == GetOr(routing_result, "agent", NoValue) IN
    CASE agent_type = "both" ->
           "**Multi-Agent Response** **Gaming Metrics:** "
             \o GetOr(routing_result, "gaming_response", "No gaming data available")
             \o " **Price Estimation:** "
             \o GetOr(routing_result, "price_response", "No price data available")
             \o " --- *This response combines data from both the NFT Gaming Agent and NFT Price Estimation Agent.*"
      [] agent_type \in FormattedAgents ->
           FormatHeader(agent_type)
             \o GetOr(routing_result, "response", "No response available")
             \o FormatFooter(agent_type)
      [] OTHER -> "Error: " \o GetOr(routing_result, "error", "Unknown error")

\* the final call answers, and what is returned is the template of the last
\* routing result
SynthesizeFormatsLocally ==
    /\ orch.frame.pc = "synthesize"
    /\ \E text \in Texts :
         /\ orch' = [orch EXCEPT !.frame =
                Returned(@, format_final_response(
                                JsonLoads(@.messages[Len(@.messages)].content)))]
         /\ probe' = OrchestratorAsksDecisionService(probe, Answer("final", text))
    /\ UNCHANGED agent

\* the final call answers: return final_content
Synthesize ==
    /\ orch.frame.pc = "synthesize"
    /\ \E text \in Texts :
         /\ orch' = [orch EXCEPT !.frame = Returned(@, text)]
         /\ probe' = OrchestratorAsksDecisionService(probe, Answer("final", text))
    /\ UNCHANGED agent

\* chat_endpoint has the string chat returned and answers with its
\* ChatResponse; the frame of chat is gone
ChatReturns ==
    /\ orch.frame.pc = "returned"
    /\ orch' = [orch EXCEPT !.frame = IdleFrame,
                            !.response = SuccessResponse(orch.frame.user_message,
                                                         orch.frame.result),
                            !.served =
                               CASE orch.scenario = "calls" ->
                                      Append(@, orch.frame.user_message)
                                 [] orch.scenario = "replay" ->
                                      Append(@, [user_message |-> orch.frame.user_message,
                                                 answers |-> probe.answers,
                                                 invocations |-> probe.invocations,
                                                 messages |-> orch.frame.messages,
                                                 result |-> orch.frame.result])
                                 [] OTHER -> @]
    /\ UNCHANGED <<agent, probe>>

\* the threads of the server are suspended and resumed between their steps:
\* the running thread's locals are put aside and the other thread finds its
\* own, as it left them
ResumedOnSharedMessages(own, other) == [own EXCEPT !.messages = other.messages]
Resumed(own, other) == own
Switch ==
    /\ orch.scenario = "concurrent"
    /\ orch' = [orch EXCEPT !.frame = Resumed(orch.parked.frame, orch.frame),
                            !.gaming_result = orch.parked.gaming_result,
                            !.response = orch.parked.response,
                            !.request = orch.parked.request,
                            !.slot = 3 - @,
                            !.parked = [frame |-> orch.frame,
                                        gaming_result |-> orch.gaming_result,
                                        response |-> orch.response,
                                        request |-> orch.request,
                                        agent |-> agent, probe |-> probe]]
    /\ agent' = orch.parked.agent
    /\ probe' = orch.parked.probe

\* a caller of agent a's dispatcher, with no call made yet
NoBench ==
    [a |-> NoValue, function_name |-> NoValue, arguments |-> {}, http |-> NoValue,
     outcomes |-> << >>]

\* the dispatcher on its own
InitDispatch ==
    /\ orch = [frame |-> IdleFrame, gaming_result |-> NoValue,
               orchestrator_instance |-> "None", response |-> NoResponse,
               scenario |-> "dispatch", served |-> << >>,
               slot |-> 1, parked |-> ParkedIdle,
               instance |-> ConstructedInstance,
               constructions |-> 0, get_orchestrator |-> NoValue,
               request |-> NoRequest, bench |-> NoBench]
    /\ agent = [a \in Agents |-> IdleFrame]
    /\ probe = FreshProbe

\* the caller picks an agent, a name and an argument mapping, and the
\* collaborator its one answer
DispatcherInputs ==
    /\ orch.bench.a = NoValue
    /\ \E a \in Agents, http \in HttpOutcomes :
         \E offer \in {o \in ToolOffers(a) : ~ JsonLoadsRaises(o[2])} :
            orch' = [orch EXCEPT !.bench =
                       [a |-> a, function_name |-> offer[1],
                        arguments |-> JsonLoads(offer[2]), http |-> http,
                        outcomes |-> << >>]]
    /\ UNCHANGED <<agent, probe>>

\* result = agent.execute_function_call(function_name, arguments)
DispatcherCall ==
    /\ orch.bench.a # NoValue
    /\ Len(orch.bench.outcomes) < 2
    /\ orch' = [orch EXCEPT !.bench.outcomes =
                  Append(@, ExecuteFunctionCall(orch.bench.a, orch.bench.function_name,
                                                orch.bench.arguments, orch.bench.http))]
    /\ UNCHANGED <<agent, probe>>

\* the caller has both results and starts over
DispatcherDone ==
    /\ Len(orch.bench.outcomes) = 2
    /\ orch' = [orch EXCEPT !.bench = NoBench]
    /\ UNCHANGED <<agent, probe>>

\* the steps of a chat call that has been entered
ChatStep ==
    \/ RouteFails
    \/ RouteDirect
    \/ RouteInvocations
    \/ ExecuteRoutingCall
    \/ RouteToAgentReturns
    \/ BothGamingReturns
    \/ BothGamingRaises
    \/ BothPriceReturns
    \/ SynthesizeFails
    \/ Synthesize
    \/ ChatReturns
    \/ \E a \in Agents :
         \/ AgentChatRaises(a)
         \/ AgentDecideFails(a)
         \/ AgentDecideDirect(a)
         \/ AgentDecideInvocations(a)
         \/ AgentToolCall(a)
         \/ AgentSynthesizeFails(a)
         \/ AgentSynthesize(a)

\* the steps of a POST /chat
ServerStep ==
    \/ Chat
    \/ ChatEndpointFails
    \/ ChatRaisesBeforeTry
    \/ ChatStep

\* the steps of an agent file's command loop
CommandLoopStep ==
    \E a \in Agents :
        \/ AgentMain(a)
        \/ AgentMainReturns(a)

Next ==
    \/ ServerStep
    \/ CommandLoopStep

Spec == Init /\ [][Next]_vars

\* every call to a collaborator returns or raises in finite time, and the
\* one thread of a chat call goes on after it: a chat call that can take a
\* step takes one
InitLive ==
    /\ orch = [frame |-> IdleFrame, gaming_result |-> NoValue,
               orchestrator_instance |-> "None", response |-> NoResponse,
               scenario |-> "live", served |-> << >>,
               slot |-> 1, parked |-> ParkedIdle,
               instance |-> ConstructedInstance,
               constructions |-> 0, get_orchestrator |-> NoValue,
               request |-> NoRequest]
    /\ agent = [a \in Agents |-> IdleFrame]
    /\ probe = FreshProbe
SpecLive == InitLive /\ [][ServerStep]_vars /\ WF_vars(ChatStep)

\* the server with its health endpoint
InitLifecycle ==
    /\ orch = [frame |-> IdleFrame, gaming_result |-> NoValue,
               orchestrator_instance |-> "None", response |-> NoResponse,
               scenario |-> "lifecycle", served |-> << >>,
               slot |-> 1, parked |-> ParkedIdle,
               instance |-> ConstructedInstance,
               constructions |-> 0, get_orchestrator |-> NoValue,
               request |-> NoRequest]
    /\ agent = [a \in Agents |-> IdleFrame]
    /\ probe = FreshProbe
NextLifecycle ==
    \/ ServerStep
    \/ HealthCheck
SpecLifecycle == InitLifecycle /\ [][NextLifecycle]_vars

\* successive calls, each with the record of what it got from outside and
\* of what it did
InitReplay ==
    /\ orch = [frame |-> IdleFrame, gaming_result |-> NoValue,
               orchestrator_instance |-> "None", response |-> NoResponse,
               scenario |-> "replay", served |-> << >>,
               slot |-> 1, parked |-> ParkedIdle,
               instance |-> ConstructedInstance,
               constructions |-> 0, get_orchestrator |-> NoValue,
               request |-> NoRequest]
    /\ agent = [a \in Agents |-> IdleFrame]
    /\ probe = FreshProbe
SpecReplay == InitReplay /\ [][ServerStep]_vars

\* successive calls
SpecCalls == InitCalls /\ [][Next]_vars

\* two calls in two threads
NextConcurrent ==
    \/ ServerStep
    \/ Switch
SpecConcurrent == InitConcurrent /\ [][NextConcurrent]_vars

\* two calls of a dispatcher
NextDispatch ==
    \/ DispatcherInputs
    \/ DispatcherCall
    \/ DispatcherDone
SpecDispatch == InitDispatch /\ [][NextDispatch]_vars


(***************************************************************************)
(* Properties.                                                             *)
(***************************************************************************)
\* the tool-result turns of a conversation and their call ids, in order
ToolTurns(messages) == SelectSeq(messages, LAMBDA t : t.role = "tool")
ToolTurnIds(messages) ==
    [k \in 1..Len(ToolTurns(messages)) |-> ToolTurns(messages)[k].tool_call_id]
RequestIds(tool_calls) == [k \in 1..Len(tool_calls) |-> tool_calls[k].id]
IsFailureResult(content) == content.fmt = "json" /\ "error" \in Keys(content.obj)
IsSuccessResult(content) ==
    content.fmt = "json" /\ "error" \notin Keys(content.obj) /\ "data" \in Keys(content.obj)
Range(seq) == {seq[k] : k \in 1..Len(seq)}
InProgress(a) == agent[a].pc \notin {"idle", "returned"}

\* C1: when the routing decision is text without invocations, the
\* orchestrator's chat returns exactly that text, no agent's chat is entered,
\* no tool-result turn is appended and the decision service is called once.
C1_DirectAnswer ==
    (orch.frame.pc = "returned" /\ probe.rounds # << >>
                                /\ probe.rounds[1].kind = "direct") =>
        /\ orch.frame.result = probe.rounds[1].text
        /\ probe.runs = << >>
        /\ \A a \in Agents : agent[a].pc = "idle"
        /\ ToolTurns(orch.frame.messages) = << >>
        /\ Len(probe.rounds) = 1

C1_Witness ==
    /\ orch.frame.pc = "returned"
    /\ probe.rounds = <<Answer("direct", "text B")>>
    /\ orch.frame.result = "text B"

\* in the run of agent a that has returned, request j of the batch failed:
\* its tool-result turn carries an error, or the loop stopped at it
RequestFailed(a, j) ==
    \/ j = agent[a].i
    \/ /\ j < agent[a].i
       /\ IsFailureResult(agent[a].messages[3 + j].content)

\* every argument text of the decision is the JSON text of an object
AllJson(tool_calls) ==
    \A k \in 1..Len(tool_calls) : ~ JsonLoadsRaises(tool_calls[k].arguments)

\* C2: in an agent's batch of tool requests, a failure of request j,
\* whatever its cause, does not keep a later request k from being handed to
\* the dispatcher and recorded as a tool-result turn (stated for the batches
\* whose argument texts are all JSON).
C2_BatchNotAborted ==
    \A a \in Agents :
        (agent[a].pc = "returned" /\ AllJson(agent[a].tool_calls)) =>
            \A j, k \in 1..Len(agent[a].tool_calls) :
                (j < k /\ RequestFailed(a, j)) =>
                    /\ agent[a].tool_calls[k].id \in Range(probe.dispatched[a])
                    /\ agent[a].tool_calls[k].id \in Range(ToolTurnIds(agent[a].messages))

\* C3: for every operation name and argument mapping the decision service
\* supplies, the agent's dispatcher returns a value and lets no exception
\* escape to its caller.
C3_DispatcherTotal ==
    \A a \in Agents :
        (agent[a].pc = "dispatch"
            /\ ~ JsonLoadsRaises(agent[a].tool_calls[agent[a].i].arguments)) =>
            \A http \in HttpOutcomes :
                ExecuteFunctionCall(a, agent[a].tool_calls[agent[a].i].name,
                    JsonLoads(agent[a].tool_calls[agent[a].i].arguments), http).raises = ""

\* a tool request whose handler is entered: its arguments are JSON, its name
\* has a branch in the dispatcher and its arguments fit the handler
ReachesHandler(a, tool_call) ==
    /\ ~ JsonLoadsRaises(tool_call.arguments)
    /\ tool_call.name \in Handlers(a)
    /\ ~ BindRaises(Signature(tool_call.name), JsonLoads(tool_call.arguments))

\* C4: in an agent run with two tool requests whose first HTTP call fails
\* and whose second succeeds, the loop goes on after the failure, the
\* conversation at synthesis is the three opening turns, a failure result for
\* the first request and a success result for the second, the synthesis call
\* is made, and the run returns its text.
C4_PartialTransportFailure ==
    \A a \in Agents :
        LET f == agent[a]
            tc == f.tool_calls
        IN  (Len(tc) = 2 /\ ReachesHandler(a, tc[1]) /\ ReachesHandler(a, tc[2])) =>
              /\ probe.http[a] = <<"RequestException">> =>
                    /\ f.pc = "dispatch"
                    /\ f.i = 2
                    /\ Len(f.messages) = 4
                    /\ f.messages[4].tool_call_id = tc[1].id
                    /\ IsFailureResult(f.messages[4].content)
              /\ probe.http[a] = <<"RequestException", "ok">> =>
                    /\ f.pc \in {"synthesize", "returned"}
                    /\ Len(f.messages) = 5
                    /\ SubSeq(f.messages, 1, 3) =
                         <<SystemTurn(a), UserTurn(f.user_message), AssistantTurn(tc)>>
                    /\ f.messages[4].role = "tool" /\ f.messages[5].role = "tool"
                    /\ f.messages[4].tool_call_id = tc[1].id
                    /\ IsFailureResult(f.messages[4].content)
                    /\ f.messages[5].tool_call_id = tc[2].id
                    /\ IsSuccessResult(f.messages[5].content)
                    /\ f.pc = "returned" =>
                         /\ Len(probe.agent_rounds[a]) = 2
                         /\ probe.agent_rounds[a][2].kind = "final" =>
                              f.result = probe.agent_rounds[a][2].text

C4_Witness ==
    \E a \in Agents :
        /\ Len(agent[a].tool_calls) = 2
        /\ probe.http[a] = <<"RequestException", "ok">>
        /\ agent[a].pc = "returned"
        /\ Len(probe.agent_rounds[a]) = 2
        /\ probe.agent_rounds[a][2] = Answer("final", "text A")
        /\ agent[a].result = "text A"

\* C5: whenever a synthesis call is issued, by an agent or by the
\* orchestrator, the conversation holds exactly one tool-result turn per
\* request of round 1, carrying that request's call id, in the requests' order.
C5_OneResultPerRequest ==
    /\ orch.frame.pc = "synthesize" =>
         ToolTurnIds(orch.frame.messages) = RequestIds(orch.frame.tool_calls)
    /\ \A a \in Agents :
         agent[a].pc = "synthesize" =>
            ToolTurnIds(agent[a].messages) = RequestIds(agent[a].tool_calls)

C5_Witness ==
    /\ orch.frame.pc = "synthesize"
    /\ Len(orch.frame.tool_calls) = 2
    /\ ToolTurnIds(orch.frame.messages) = <<2, 1>>
    /\ IsFailureResult(orch.frame.messages[4].content)

C5_WitnessAgent ==
    \E a \in Agents :
        /\ agent[a].pc = "synthesize"
        /\ Len(agent[a].tool_calls) = 2
        /\ IsFailureResult(agent[a].messages[4].content)


C7_AgentDecideFailure ==
    \A a \in Agents :
        (probe.agent_rounds[a] # << >> /\ probe.agent_rounds[a][1].kind = "error") =>
            /\ agent[a].pc = "returned"
            /\ agent[a].result = "An error occurred: decision service unavailable"
            /\ probe.dispatched[a] = << >>
            /\ probe.http[a] = << >>
            /\ Len(probe.agent_rounds[a]) = 1
            /\ ToolTurns(agent[a].messages) = << >>

C7_Witness ==
    \E a \in Agents :
        /\ probe.agent_rounds[a] = <<Answer("error", "")>>
        /\ agent[a].pc = "returned"
        /\ agent[a].result \in ErrorStrings

\* C8: when the routing decision-service call fails, the orchestrator's chat
\* returns one error string, no agent's chat is entered and the decision
\* service is not called a second time.
C8_RouteFailure ==
    (probe.rounds # << >> /\ probe.rounds[1].kind = "error") =>
        /\ orch.frame.pc \in {"returned", "idle"}
        /\ orch.frame.pc = "returned" =>
              orch.frame.result = "An error occurred: decision service unavailable"
        /\ probe.runs = << >>
        /\ \A a \in Agents : agent[a].pc = "idle"
        /\ Len(probe.rounds) = 1

C8_Witness ==
    /\ probe.rounds = <<Answer("error", "")>>
    /\ orch.frame.pc = "returned"
    /\ orch.frame.result \in ErrorStrings


\* the index of the last entry to the price agent's chat in the run log
LastPriceStart ==
    CHOOSE j \in 1..Len(probe.runs) :
        /\ probe.runs[j] = <<"start", "price_estimation">>
        /\ \A m \in (j + 1)..Len(probe.runs) : probe.runs[m] # <<"start", "price_estimation">>

\* C9: in route_to_both_agents the gaming agent's chat has returned before
\* the price agent's chat is entered: the two runs are never both in
\* progress, and the price agent's run directly follows the completed gaming
\* run.
C9_BothSequential ==
    /\ ~ (agent["gaming"].pc # "idle" /\ agent["price_estimation"].pc # "idle")
    /\ orch.frame.pc = "in_gaming" =>
          /\ agent["price_estimation"].pc = "idle"
          /\ probe.runs[Len(probe.runs)][2] = "gaming"
    /\ orch.frame.pc = "in_price" =>
          /\ agent["gaming"].pc = "idle"
          /\ orch.gaming_result # NoValue
          /\ LastPriceStart >= 3
          /\ probe.runs[LastPriceStart - 1] = <<"end", "gaming">>
          /\ probe.runs[LastPriceStart - 2] = <<"start", "gaming">>

C9_Witness ==
    /\ orch.frame.pc = "in_price"
    /\ agent["price_estimation"].pc = "returned"
    /\ orch.gaming_result = "text A"
    /\ probe.runs = <<<<"start", "gaming">>, <<"end", "gaming">>,
                      <<"start", "price_estimation">>, <<"end", "price_estimation">>>>

\* a routing entry whose routing function is entered
EntersRoute(call) ==
    /\ ~ JsonLoadsRaises(call.arguments)
    /\ \/ call.name \in SingleRoutes
          /\ ~ BindRaises(SingleSignature, JsonLoads(call.arguments))
       \/ call.name = BothRoute
          /\ ~ BindRaises(BothSignature, JsonLoads(call.arguments))
\* the entries of the routing decision whose tool-result turn carries an
\* agent's fault
FaultedEntries ==
    {k \in 1..Len(ToolTurns(orch.frame.messages)) :
        /\ EntersRoute(orch.frame.tool_calls[k])
        /\ "error" \in Keys(ToolTurns(orch.frame.messages)[k].content.obj)}
\* finished entry k is a combined operation that ended at the gaming agent's
\* fault (the faults are logged in the order of the faulted entries)
GamingFaultAt(k) ==
    LET nth == Cardinality({j \in FaultedEntries : j <= k})
    IN  /\ k \in FaultedEntries
        /\ orch.frame.tool_calls[k].name = BothRoute
        /\ nth <= Len(probe.faults)
        /\ probe.faults[nth] = "gaming"
\* the entries to and returns from agents that routing entry `call` makes
\* when no chat raises before the last one is entered
RunsOfEntry(call) ==
    IF call.name \in SingleRoutes
    THEN <<<<"start", RoutingTable[call.name]>>, <<"end", RoutingTable[call.name]>>>>
    ELSE IF call.name = BothRoute
    THEN <<<<"start", "gaming">>, <<"end", "gaming">>,
           <<"start", "price_estimation">>, <<"end", "price_estimation">>>>
    ELSE << >>
RECURSIVE RunsOfEntries(_, _)
RunsOfEntries(tool_calls, n) ==
    IF n = 0 THEN << >>
    ELSE RunsOfEntries(tool_calls, n - 1)
            \o (IF GamingFaultAt(n)
                THEN <<<<"start", "gaming">>, <<"end", "gaming">>>>
                ELSE RunsOfEntry(tool_calls[n]))
IsPrefix(s, t) == Len(s) <= Len(t) /\ SubSeq(t, 1, Len(s)) = s

\* C10: for a routing decision e1..en the agents are entered in that order;
\* the run of entry i and the append of its tool-result turn are complete
\* before the run of entry i+1 starts; at most one agent run exists at a time.
C10_ExecutionOrder ==
    LET f == orch.frame
        done == RunsOfEntries(f.tool_calls, f.i - 1)
    IN  /\ Cardinality({a \in Agents : agent[a].pc # "idle"}) <= 1
        /\ f.pc \in {"dispatch", "synthesize", "returned"} /\ f.tool_calls # << >> =>
              /\ probe.runs = done
              /\ ToolTurnIds(f.messages) = SubSeq(RequestIds(f.tool_calls), 1, f.i - 1)
              /\ \A a \in Agents : agent[a].pc = "idle"
        /\ f.pc \in {"in_agent", "in_gaming", "in_price"} =>
              /\ IsPrefix(done, probe.runs)
              /\ Len(probe.runs) > Len(done)
              /\ IsPrefix(probe.runs, done \o RunsOfEntry(f.tool_calls[f.i]))
              /\ ToolTurnIds(f.messages) = SubSeq(RequestIds(f.tool_calls), 1, f.i - 1)

C10_Witness ==
    /\ orch.frame.pc = "in_agent"
    /\ orch.frame.i = 2
    /\ orch.frame.tool_calls[1].name = "route_to_brand_agent"
    /\ orch.frame.tool_calls[2].name = "route_to_gaming_agent"
    /\ agent["gaming"].pc = "synthesize"
    /\ probe.runs = <<<<"start", "brand">>, <<"end", "brand">>, <<"start", "gaming">>>>


\* the outcome recorded for routing entry `call` when the agent's chat raised
FailureOutcomeOf(call) ==
    IF call.name = BothRoute
    THEN BothFailure(Get(JsonLoads(call.arguments), "gaming_query"),
                     Get(JsonLoads(call.arguments), "price_query"),
                     Get(JsonLoads(call.arguments), "reason"), AgentFault)
    ELSE SingleFailure(RoutingTable[call.name],
                       Get(JsonLoads(call.arguments), "query"),
                       Get(JsonLoads(call.arguments), "reason"), AgentFault)

EntryArgument(k, key) == Get(JsonLoads(orch.frame.tool_calls[k].arguments), key)

\* C12: the agent named by a single-agent entry is called with exactly the
\* entry's query, and the outcome recorded for the entry carries that query,
\* whether the agent's chat returned or raised; the combined operation passes
\* gaming_query to the gaming agent and price_query to the price agent and
\* records both unchanged.
C12_SubQueryPassthrough ==
    LET f == orch.frame
        turns == ToolTurns(f.messages)
        called(a, q) ==
            /\ agent[a].pc # "idle"
            /\ agent[a].user_message = q
            /\ agent[a].messages[2] = UserTurn(q)
            /\ \A b \in Agents \ {a} : agent[b].pc = "idle"
    IN  /\ f.pc = "in_agent" =>
              called(RoutingTable[f.tool_calls[f.i].name], EntryArgument(f.i, "query"))
        /\ f.pc = "in_gaming" => called("gaming", EntryArgument(f.i, "gaming_query"))
        /\ f.pc = "in_price" => called("price_estimation", EntryArgument(f.i, "price_query"))
        /\ \A k \in 1..Len(turns) :
              EntersRoute(f.tool_calls[k]) =>
                 IF f.tool_calls[k].name = BothRoute
                 THEN /\ Get(turns[k].content.obj, "gaming_query")
                            = EntryArgument(k, "gaming_query")
                      /\ Get(turns[k].content.obj, "price_query")
                            = EntryArgument(k, "price_query")
                 ELSE /\ Get(turns[k].content.obj, "query") = EntryArgument(k, "query")
                      /\ Get(turns[k].content.obj, "agent")
                            = RoutingTable[f.tool_calls[k].name]

C12_Witness ==
    /\ orch.frame.pc = "in_price"
    /\ orch.frame.i = 2
    /\ orch.frame.tool_calls[1].name = "route_to_price_agent"
    /\ "error" \in Keys(ToolTurns(orch.frame.messages)[1].content.obj)
    /\ Get(ToolTurns(orch.frame.messages)[1].content.obj, "query") = "sub-query 1"
    /\ agent["price_estimation"].pc = "synthesize"
    /\ agent["price_estimation"].user_message = "sub-query 2"
    /\ orch.frame.user_message = "user query"


\* a decision-service round of the orchestrator's chat failed
TopLevelDecisionError == \E k \in 1..Len(probe.rounds) : probe.rounds[k].kind = "error"

\* C13: the ChatResponse of a POST /chat whose chat had a decision-service
\* round fail has success = false, an error text and an empty response; the
\* ChatResponse of every other POST /chat whose chat ran has success = true.
C13_HttpSuccessFlag ==
    (orch.response # NoResponse /\ probe.rounds # << >>) =>
        IF TopLevelDecisionError
        THEN /\ orch.response.success = FALSE
             /\ orch.response.error # NoValue
             /\ orch.response.response = ""
        ELSE orch.response.success = TRUE


\* C14: an orchestrator's or an agent's chat returns an error string in
\* place of an answer only if a decision-service round of that same call
\* failed (stated for the decisions whose argument texts are all JSON).
C14_EscalationOnlyOnDecisionError ==
    /\ (orch.frame.pc = "returned" /\ orch.frame.result \in ErrorStrings
            /\ AllJson(orch.frame.tool_calls)) =>
          TopLevelDecisionError
    /\ \A a \in Agents :
          (agent[a].pc = "returned" /\ agent[a].result \in ErrorStrings
              /\ AllJson(agent[a].tool_calls)) =>
              \E k \in 1..Len(probe.agent_rounds[a]) :
                  probe.agent_rounds[a][k].kind = "error"


\* a step of one invocation leaves every turn of the conversation at its index
GrowsByAppend(who, before, after) ==
    (before.pc # "idle" /\ after.pc # "idle") =>
        /\ IsPrefix(before.messages, after.messages)
        /\ after.user_message = before.user_message
        /\ SubSeq(after.messages, 1, 2) = InitialMessages(who, after.user_message)

\* C15: within one invocation of an orchestrator's or an agent's chat the
\* conversation only grows at its end: every turn stays at its index, and
\* the first two turns are the fixed system turn and the user turn holding
\* the query.
C15_AppendOnly ==
    [][/\ GrowsByAppend("orchestrator", orch.frame, orch.frame')
       /\ \A a \in Agents : GrowsByAppend(a, agent[a], agent'[a])]_vars

C15_Witness ==
    /\ orch.frame.pc = "synthesize"
    /\ Len(orch.frame.messages) = 5
    /\ SubSeq(orch.frame.messages, 1, 2) = InitialMessages("orchestrator", "user query")
    /\ orch.frame.messages[3].role = "assistant"
    /\ orch.frame.messages[4].role = "tool" /\ orch.frame.messages[5].role = "tool"


\* the conversation of a call holds that call's turns and no others: the
\* system turn, the user turn of its query, and after a decision with
\* invocations the assistant turn of that decision and tool turns for its
\* requests
OwnTurnsOnly(who, frame) ==
    frame.pc # "idle" =>
        /\ SubSeq(frame.messages, 1, 2) = InitialMessages(who, frame.user_message)
        /\ frame.pc = "decide" => Len(frame.messages) = 2
        /\ Len(frame.messages) >= 3 =>
              /\ frame.messages[3] = AssistantTurn(frame.tool_calls)
              /\ \A k \in 4..Len(frame.messages) : frame.messages[k].role = "tool"
              /\ IsPrefix(ToolTurnIds(frame.messages), RequestIds(frame.tool_calls))

\* C16: in every call of a sequence of chat calls on one instance the
\* conversation sent to the decision service in round 1 is the system turn
\* and the user turn of that call's query, and no turn of an earlier call is
\* in a later call's conversation.
C16_FreshStatePerCall ==
    /\ OwnTurnsOnly("orchestrator", orch.frame)
    /\ \A a \in Agents : OwnTurnsOnly(a, agent[a])
    /\ \A k \in 1..Len(orch.served) :
          orch.served[k] # orch.frame.user_message =>
              UserTurn(orch.served[k]) \notin Range(orch.frame.messages)

C16_Witness ==
    /\ orch.served = <<"user query">>
    /\ orch.frame.pc = "synthesize"
    /\ orch.frame.user_message = "another query"
    /\ Len(orch.frame.messages) = 4
    /\ orch.frame.tool_calls[1].name = "route_to_brand_agent"


\* the query a thread serves, and the call ids the decision service gives it
ThreadQuery(slot) == IF slot = 1 THEN "user query" ELSE "another query"
ThreadCallIds(slot) == IF slot = 1 THEN 1..9 ELSE 11..19

\* what one thread holds is its own: its conversation and its agents'
\* conversations have that call's turns and no others, the user turn is its
\* request's query, the tool turns answer requests the decision service made
\* to it, the other thread's user turn is not there, the text it returns
\* after a synthesis is the text the decision service gave it for its
\* conversation, and its ChatResponse carries its request's query
OwnThread(slot, frame, agents, p, response) ==
    /\ OwnTurnsOnly("orchestrator", frame)
    /\ \A a \in Agents : OwnTurnsOnly(a, agents[a])
    /\ frame.pc # "idle" =>
          /\ frame.user_message = ThreadQuery(slot)
          /\ Range(ToolTurnIds(frame.messages)) \subseteq ThreadCallIds(slot)
          /\ UserTurn(ThreadQuery(3 - slot)) \notin Range(frame.messages)
          /\ Len(p.rounds) <= 2
          /\ (frame.pc = "returned" /\ Len(p.rounds) = 2
                                    /\ p.rounds[2].kind = "final") =>
                 frame.result = p.rounds[2].text
    /\ response # NoResponse => response.query = ThreadQuery(slot)
    /\ (response # NoResponse /\ Len(p.rounds) = 2 /\ p.rounds[2].kind = "final") =>
          response.response = p.rounds[2].text

\* C17: when two chat calls on the shared orchestrator interleave in any
\* way, each call's conversation holds its own user turn and tool turns and
\* none of the other call's, and each call returns the text synthesized
\* from its own conversation.
C17_ConcurrentIsolation ==
    orch.scenario = "concurrent" =>
        /\ OwnThread(orch.slot, orch.frame, agent, probe, orch.response)
        /\ OwnThread(3 - orch.slot, orch.parked.frame, orch.parked.agent,
                     orch.parked.probe, orch.parked.response)

\* both calls are under way, each past its dispatch, and the second thread
\* has been suspended after the first one's tool turn was appended
C17_Witness ==
    /\ orch.scenario = "concurrent"
    /\ orch.slot = 1
    /\ orch.frame.pc = "returned"
    /\ Len(probe.rounds) = 2
    /\ probe.rounds[2] = Answer("final", "text A")
    /\ orch.parked.frame.pc = "synthesize"
    /\ Len(orch.parked.frame.messages) = 4
    /\ orch.parked.frame.messages[4].tool_call_id = 11


\* the decision-service calls of one chat: a decide that answers with text,
\* with invocations or not at all, and after invocations only, one
\* synthesize that answers with text or not at all
TwoRounds(rounds) ==
    /\ Len(rounds) <= 2
    /\ Len(rounds) >= 1 => rounds[1].kind \in {"direct", "invocations", "error"}
    /\ Len(rounds) = 2 => /\ rounds[1].kind = "invocations"
                          /\ rounds[2].kind \in {"final", "error"}

\* after the synthesize call the chat has returned: its text if it answered,
\* with every request of round 1 dispatched before it and none after
SynthesisEnds(frame, rounds) ==
    (Len(rounds) = 2 /\ frame.pc # "idle") =>
        /\ frame.pc = "returned"
        /\ Len(frame.messages) = 3 + Len(frame.tool_calls)
        /\ rounds[2].kind = "final" => frame.result = rounds[2].text
        /\ rounds[2].kind = "error" => frame.result = ErrorMsg("DecisionServiceError")

\* C18: each agent run and each orchestrator chat makes at most two
\* decision-service calls of its own, a decide and then at most one
\* synthesize; a failed call is the last call of its chat, and the text of
\* the synthesize call is returned with no further dispatch.
C18_TwoRoundsNoRetry ==
    /\ TwoRounds(probe.rounds)
    /\ SynthesisEnds(orch.frame, probe.rounds)
    /\ \A a \in Agents :
          /\ TwoRounds(probe.agent_rounds[a])
          /\ SynthesisEnds(agent[a], probe.agent_rounds[a])

\* the orchestrator's synthesize call has failed after the dispatch of a
\* decision of two requests
C18_Witness ==
    /\ orch.frame.pc = "returned"
    /\ Len(probe.rounds) = 2
    /\ probe.rounds[2].kind = "error"
    /\ Len(orch.frame.tool_calls) = 2
    /\ Len(orch.frame.messages) = 5


\* the templates format_final_response builds from the routing results in a
\* conversation
Templates(messages) ==
    {format_final_response(JsonLoads(ToolTurns(messages)[k].content)) :
        k \in 1..Len(ToolTurns(messages))}

\* round 1 answered with invocations and the synthesize call answered
Synthesized(rounds) ==
    /\ Len(rounds) = 2
    /\ rounds[1].kind = "invocations"
    /\ rounds[2].kind = "final"

\* C19: whenever round 1 returned invocations and the synthesis call
\* succeeds, chat returns exactly the text of that synthesis call, never a
\* template built locally from a routing result, at the orchestrator and at
\* the agents.
C19_FinalIsSynthesizedText ==
    /\ (orch.frame.pc = "returned" /\ Synthesized(probe.rounds)) =>
          /\ orch.frame.result = probe.rounds[2].text
          /\ orch.frame.result \notin Templates(orch.frame.messages)
    /\ \A a \in Agents :
          (agent[a].pc = "returned" /\ Synthesized(probe.agent_rounds[a])) =>
              agent[a].result = probe.agent_rounds[a][2].text

\* the orchestrator has returned the synthesized text after routing to both
\* agents
C19_Witness ==
    /\ orch.frame.pc = "returned"
    /\ Synthesized(probe.rounds)
    /\ orch.frame.result = "text B"
    /\ orch.frame.tool_calls[1].name = "route_to_both_agents"
    /\ Len(orch.frame.messages) = 4
    /\ "gaming_response" \in Keys(JsonLoads(orch.frame.messages[4].content))


\* the step in which chat_endpoint has the text chat returned
ChatHasReturned ==
    /\ orch.frame.pc = "returned"
    /\ orch'.frame.pc = "idle"
    /\ orch'.slot = orch.slot

\* C20: for every POST /chat request on which orchestrator.chat returns
\* text T, the ChatResponse has response = T unchanged and query = the
\* request's message.
C20_HttpPassThrough ==
    [][ChatHasReturned =>
          /\ orch'.response.response = orch.frame.result
          /\ orch'.response.query = orch.frame.user_message]_vars

\* a ChatResponse that carries the synthesized text of a routed request
C20_Witness ==
    /\ orch.frame.pc = "idle"
    /\ orch.response.success
    /\ orch.response.response = "text A"
    /\ orch.response.query = "user query"
    /\ Len(probe.rounds) = 2
    /\ probe.rounds[2] = Answer("final", "text A")


\* the agent chat runs entered so far in the orchestrator's chat call
AgentRuns == {k \in 1..Len(probe.runs) : probe.runs[k][1] = "start"}

\* C21: in every orchestrator chat call the total number of agent chat runs
\* is zero, one or two.
C21_BoundedAgentRuns ==
    orch.frame.pc # "idle" => Cardinality(AgentRuns) <= 2


\* the requests of agent a's batch, among the first n, whose name has a
\* branch in its dispatcher
KnownRequests(a, n) ==
    {k \in 1..n : agent[a].tool_calls[k].name \in Handlers(a)}

\* C22: every tool request of an agent's batch is handed to the dispatcher
\* exactly once, each dispatch of a known name performs exactly one HTTP GET
\* and a dispatch of an unknown name none, so that a run that reaches
\* synthesis has made as many HTTP GETs as it has requests with known names
\* (stated for the batches whose argument texts are all JSON).
C22_OneCallPerDispatch ==
    \A a \in Agents :
        LET f == agent[a]
            tc == f.tool_calls
        IN  (tc # << >> /\ AllJson(tc)) =>
              /\ IsPrefix(probe.dispatched[a], RequestIds(tc))
              /\ f.pc \in {"synthesize", "returned"} =>
                    probe.dispatched[a] = RequestIds(tc)
              /\ Len(probe.http[a]) = Cardinality(KnownRequests(a, Len(probe.dispatched[a])))
              /\ (f.pc = "synthesize" \/ Len(probe.agent_rounds[a]) = 2) =>
                    Len(probe.http[a]) = Cardinality(KnownRequests(a, Len(tc)))


C24_SharedStructuresReadOnly ==
    /\ orch.instance.routing_tools = ConstructedInstance.routing_tools
    /\ orch.instance.tools = ConstructedInstance.tools
    /\ orch.instance.base_url = ConstructedInstance.base_url
    /\ orch.instance.api_key = ConstructedInstance.api_key

\* a second call, made with verbose off, has routed to an agent whose
\* dispatcher has been called
C24_Witness ==
    /\ Len(orch.served) = 1
    /\ orch.instance.verbose = FALSE
    /\ orch.frame.pc = "in_agent"
    /\ \E a \in Agents : /\ agent[a].pc = "synthesize"
                         /\ probe.dispatched[a] # << >>


\* the outcome of a routing entry as its tool-result turn must carry it: for
\* a name without a branch the unknown-function error; for the combined
\* function one mapping of agent "both" with both sub-queries and either
\* both agents' responses or an error; for a single-agent function one
\* mapping of that agent with the query and either its response or an error
IsOutcomeOf(call, o) ==
    LET arguments == JsonLoads(call.arguments) IN
    CASE call.name = BothRoute ->
           /\ Get(o, "agent") = "both"
           /\ Get(o, "gaming_query") = Get(arguments, "gaming_query")
           /\ Get(o, "price_query") = Get(arguments, "price_query")
           /\ Get(o, "reason") = Get(arguments, "reason")
           /\ \/ Keys(o) = {"agent", "gaming_query", "price_query", "reason",
                            "gaming_response", "price_response"}
              \/ Keys(o) = {"agent", "gaming_query", "price_query", "reason", "error"}
      [] call.name \in SingleRoutes ->
           /\ Get(o, "agent") = RoutingTable[call.name]
           /\ Get(o, "query") = Get(arguments, "query")
           /\ Get(o, "reason") = Get(arguments, "reason")
           /\ \/ Keys(o) = {"agent", "query", "reason", "response"}
              \/ Keys(o) = {"agent", "query", "reason", "error"}
      [] OTHER -> o = UnknownRoutingFunction(call.name)

\* C25: when the final synthesis is invoked the orchestrator's conversation
\* is the system turn, the user turn, the assistant turn and one tool-result
\* turn per routing entry, turn i holding the serialized outcome of entry i
\* under entry i's call id; the combined operation gives one turn that
\* holds both agents' responses, not two turns.
C25_OneTurnPerRoutingEntry ==
    LET f == orch.frame IN
    f.pc = "synthesize" =>
        /\ Len(f.messages) = 3 + Len(f.tool_calls)
        /\ SubSeq(f.messages, 1, 3) =
              <<SystemTurn("orchestrator"), UserTurn(f.user_message),
                AssistantTurn(f.tool_calls)>>
        /\ \A k \in 1..Len(f.tool_calls) :
              /\ f.messages[3 + k].role = "tool"
              /\ f.messages[3 + k].tool_call_id = f.tool_calls[k].id
              /\ f.messages[3 + k].content.fmt = "json"
              /\ IsOutcomeOf(f.tool_calls[k], JsonLoads(f.messages[3 + k].content))

\* synthesis is about to be invoked after the combined operation, which
\* both agents answered, and a single-agent entry
C25_Witness ==
    /\ orch.frame.pc = "synthesize"
    /\ Len(orch.frame.tool_calls) = 2
    /\ orch.frame.tool_calls[1].name = BothRoute
    /\ orch.frame.tool_calls[2].name = "route_to_brand_agent"
    /\ Len(orch.frame.messages) = 5
    /\ {"gaming_response", "price_response"}
          \subseteq Keys(JsonLoads(orch.frame.messages[4].content))


\* no routing entry and no tool request is executed twice: the tool-result
\* turns answer the requests in their order, one each at most; the agent
\* runs are no more than the entries call for; each agent's dispatcher was
\* handed the requests of its batch in their order, one time each at most
AtMostOnce ==
    /\ IsPrefix(ToolTurnIds(orch.frame.messages), RequestIds(orch.frame.tool_calls))
    /\ orch.frame.pc # "idle" =>
          IsPrefix(probe.runs,
                   RunsOfEntries(orch.frame.tool_calls, Len(orch.frame.tool_calls)))
    /\ \A a \in Agents :
          /\ IsPrefix(probe.dispatched[a], RequestIds(agent[a].tool_calls))
          /\ IsPrefix(ToolTurnIds(agent[a].messages), RequestIds(agent[a].tool_calls))

\* C26: when every decision-service call and every HTTP call returns or
\* fails in finite time, every orchestrator chat call that is entered
\* eventually returns a string, having executed each routing entry and each
\* tool request at most once.
C26_Termination ==
    /\ (orch.frame.pc = "decide") ~>
            (orch.frame.pc = "returned" /\ orch.frame.result # NoValue)
    /\ []AtMostOnce

\* a chat call has returned the synthesized text after two routing entries,
\* the second one the combined operation
C26_Witness ==
    /\ orch.frame.pc = "returned"
    /\ Len(orch.frame.tool_calls) = 2
    /\ orch.frame.tool_calls[2].name = BothRoute
    /\ orch.frame.i = 3
    /\ Len(probe.runs) = 6
    /\ orch.frame.result = "text A"


\* C29: when the gaming agent's chat raises inside route_to_both_agents the
\* price agent's chat is not entered for that entry; the one outcome
\* recorded for a combined entry in which either chat raised has exactly the
\* keys agent ("both"), gaming_query, price_query, reason and error, so it
\* carries neither gaming_response nor price_response, also when the gaming
\* agent's chat had returned before the price agent's raised.
C29_BothUnderFault ==
    LET f == orch.frame
        turns == ToolTurns(f.messages)
        \* the finished entries that entered the price agent's chat
        PriceEntries ==
            {k \in 1..Len(turns) :
                /\ EntersRoute(f.tool_calls[k])
                /\ \/ f.tool_calls[k].name = "route_to_price_agent"
                   \/ f.tool_calls[k].name = BothRoute /\ ~ GamingFaultAt(k)}
        PriceRuns ==
            {j \in 1..Len(probe.runs) : probe.runs[j] = <<"start", "price_estimation">>}
    IN  /\ (f.pc = "in_gaming" /\ agent["gaming"].pc = "raised") =>
              agent["price_estimation"].pc = "idle"
        /\ f.pc \in {"dispatch", "synthesize", "returned"} =>
              Cardinality(PriceRuns) = Cardinality(PriceEntries)
        /\ \A k \in FaultedEntries :
              f.tool_calls[k].name = BothRoute =>
                  /\ Keys(turns[k].content.obj) =
                        {"agent", "gaming_query", "price_query", "reason", "error"}
                  /\ Get(turns[k].content.obj, "agent") = "both"
                  /\ Get(turns[k].content.obj, "gaming_query") = EntryArgument(k, "gaming_query")
                  /\ Get(turns[k].content.obj, "price_query") = EntryArgument(k, "price_query")
                  /\ Get(turns[k].content.obj, "reason") = EntryArgument(k, "reason")
                  /\ Get(turns[k].content.obj, "error") = "Both agents error: " \o AgentFault
                  /\ Cardinality({j \in 1..Len(turns) :
                                    turns[j].tool_call_id = f.tool_calls[k].id}) = 1

C29_Witness ==
    /\ orch.frame.pc = "returned"
    /\ Len(orch.frame.tool_calls) = 2
    /\ \A k \in 1..2 : orch.frame.tool_calls[k].name = BothRoute
    /\ FaultedEntries = {1, 2}
    /\ probe.faults = <<"gaming", "price_estimation">>
    /\ probe.runs = <<<<"start", "gaming">>, <<"end", "gaming">>,
                      <<"start", "gaming">>, <<"end", "gaming">>,
                      <<"start", "price_estimation">>, <<"end", "price_estimation">>>>
    /\ Len(probe.rounds) = 2


\* a routing entry at which the loop body raises outside the routing
\* functions' except clauses, and a tool request at which an agent's does
RoutingEntryRaises(call) ==
    \/ JsonLoadsRaises(call.arguments)
    \/ call.name \in SingleRoutes \cup {BothRoute} /\ ~ EntersRoute(call)
ToolRequestRaises(a, tool_call) ==
    \/ JsonLoadsRaises(tool_call.arguments)
    \/ tool_call.name \in Handlers(a) /\ ~ ReachesHandler(a, tool_call)
\* the first index of a non-empty set of indices
First(S) == CHOOSE k \in S : \A j \in S : k <= j
RaiseMsg(arguments) ==
    IF JsonLoadsRaises(arguments) THEN ErrorMsg("JSONDecodeError") ELSE ErrorMsg("TypeError")

\* C27: when routing entry k is the first whose argument text is not JSON or
\* whose arguments do not fit its routing function, chat returns an error
\* string, the entries before k have each run their agents once and got
\* their tool-result turn, no entry after k is executed and the final
\* synthesis call is never made; likewise for the first such tool request k
\* of an agent's batch, whose earlier requests were dispatched and made their
\* HTTP calls once.
C27_MidBatchAbort ==
    LET f == orch.frame
        raising == {k \in 1..Len(f.tool_calls) : RoutingEntryRaises(f.tool_calls[k])}
    IN  /\ (f.pc # "idle" /\ raising # {}) =>
              LET k == First(raising) IN
              /\ f.i <= k
              /\ f.pc # "synthesize"
              /\ Len(probe.rounds) = 1
              /\ IsPrefix(probe.runs, RunsOfEntries(f.tool_calls, k - 1))
              /\ f.pc = "returned" =>
                    /\ f.i = k
                    /\ f.result = RaiseMsg(f.tool_calls[k].arguments)
                    /\ probe.runs = RunsOfEntries(f.tool_calls, k - 1)
                    /\ ToolTurnIds(f.messages) = SubSeq(RequestIds(f.tool_calls), 1, k - 1)
        /\ \A a \in Agents :
              LET g == agent[a]
                  bad == {k \in 1..Len(g.tool_calls) : ToolRequestRaises(a, g.tool_calls[k])}
              IN  (g.pc \in {"dispatch", "synthesize", "returned"} /\ bad # {}) =>
                      LET k == First(bad) IN
                      /\ g.i <= k
                      /\ g.pc # "synthesize"
                      /\ Len(probe.agent_rounds[a]) = 1
                      /\ IsPrefix(probe.dispatched[a], SubSeq(RequestIds(g.tool_calls), 1, k))
                      /\ Len(probe.http[a]) <= Cardinality(KnownRequests(a, k - 1))
                      /\ g.pc = "returned" =>
                            /\ g.i = k
                            /\ g.result = RaiseMsg(g.tool_calls[k].arguments)
                            /\ Len(probe.http[a]) = Cardinality(KnownRequests(a, k - 1))
                            /\ ToolTurnIds(g.messages) =
                                  SubSeq(RequestIds(g.tool_calls), 1, k - 1)
                            /\ probe.dispatched[a] =
                                  SubSeq(RequestIds(g.tool_calls), 1,
                                         IF JsonLoadsRaises(g.tool_calls[k].arguments)
                                         THEN k - 1 ELSE k)

C27_Witness ==
    /\ orch.frame.pc = "returned"
    /\ Len(orch.frame.tool_calls) = 2
    /\ orch.frame.i = 2
    /\ EntersRoute(orch.frame.tool_calls[1])
    /\ RoutingEntryRaises(orch.frame.tool_calls[2])
    /\ ~ JsonLoadsRaises(orch.frame.tool_calls[2].arguments)
    /\ orch.frame.result = ErrorMsg("TypeError")
    /\ Len(probe.runs) = 2
    /\ Len(ToolTurns(orch.frame.messages)) = 1
    /\ "response" \in Keys(ToolTurns(orch.frame.messages)[1].content.obj)
    /\ Len(probe.rounds) = 1


\* the step in which route_to_<x>_agent returns its outcome to the loop
SingleRouteReturns == orch.frame.pc = "in_agent" /\ orch'.frame.pc # "in_agent"

\* C28: whatever string an agent's chat returns, an error string of its own
\* rounds included, route_to_<x>_agent records it under the "response" key
\* of an outcome without an "error" key; the outcome with the "error" key is
\* recorded only in a step in which the agent's chat has raised.
C28_InternalFailureIsResponse ==
    /\ [][SingleRouteReturns =>
            LET a == RoutingTable[RoutingCall.name]
                o == orch'.frame.messages[Len(orch'.frame.messages)].content.obj
            IN  /\ Len(orch'.frame.messages) = Len(orch.frame.messages) + 1
                /\ agent[a].pc = "returned" =>
                      /\ Keys(o) = {"agent", "query", "reason", "response"}
                      /\ Get(o, "response") = agent[a].result
                /\ "error" \in Keys(o) =>
                      /\ agent[a].pc = "raised"
                      /\ probe.faults # << >>
                      /\ probe.faults[Len(probe.faults)] = a
                      /\ "response" \notin Keys(o)]_vars
    /\ [](\A k \in 1..Len(ToolTurns(orch.frame.messages)) :
             (EntersRoute(orch.frame.tool_calls[k])
                /\ orch.frame.tool_calls[k].name \in SingleRoutes) =>
                 LET o == ToolTurns(orch.frame.messages)[k].content.obj
                 IN  /\ ("response" \in Keys(o)) # ("error" \in Keys(o))
                     /\ "error" \in Keys(o) => probe.faults # << >>)

C28_Witness ==
    /\ orch.frame.pc = "synthesize"
    /\ Len(orch.frame.tool_calls) = 1
    /\ orch.frame.tool_calls[1].name = "route_to_gaming_agent"
    /\ probe.faults = << >>
    /\ LET o == ToolTurns(orch.frame.messages)[1].content.obj
       IN  /\ Keys(o) = {"agent", "query", "reason", "response"}
           /\ Get(o, "response") = ErrorMsg("DecisionServiceError")


\* the strings obtained from agents and handlers that a conversation's
\* tool-result turns hold
ObtainedResults(messages) ==
    UNION {{p[2] : p \in ToolTurns(messages)[k].content.obj} :
              k \in 1..Len(ToolTurns(messages))}
\* the synthesize call of a chat whose round 1 answered with invocations
\* has failed
SynthesisFailed(rounds) == Len(rounds) = 2 /\ rounds[2].kind = "error"

\* C30: when every invocation of round 1 has been executed and the
\* synthesize call then fails, chat returns the error string of that failure
\* alone, which is none of the results obtained (and no template built from
\* them); every agent run and HTTP call made stays made once, the
\* tool-result turns stay in the conversation, and no further call follows.
C30_SynthesisFailureAfterDispatch ==
    LET f == orch.frame IN
    /\ (f.pc # "idle" /\ SynthesisFailed(probe.rounds)) =>
          /\ f.pc = "returned"
          /\ f.result = ErrorMsg("DecisionServiceError")
          /\ f.result \notin (ObtainedResults(f.messages) \ ErrorStrings)
          /\ f.result \notin Templates(f.messages)
          /\ f.i = Len(f.tool_calls) + 1
          /\ ToolTurnIds(f.messages) = RequestIds(f.tool_calls)
          /\ probe.runs = RunsOfEntries(f.tool_calls, Len(f.tool_calls))
          /\ \A a \in Agents : agent[a].pc = "idle"
    /\ \A a \in Agents :
          (agent[a].pc # "idle" /\ SynthesisFailed(probe.agent_rounds[a])) =>
              /\ agent[a].pc = "returned"
              /\ agent[a].result = ErrorMsg("DecisionServiceError")
              /\ agent[a].result \notin ObtainedResults(agent[a].messages)
              /\ agent[a].i = Len(agent[a].tool_calls) + 1
              /\ ToolTurnIds(agent[a].messages) = RequestIds(agent[a].tool_calls)
              /\ probe.dispatched[a] = RequestIds(agent[a].tool_calls)
              /\ Len(probe.http[a]) =
                    Cardinality(KnownRequests(a, Len(agent[a].tool_calls)))

C30_Witness ==
    /\ orch.frame.pc = "returned"
    /\ SynthesisFailed(probe.rounds)
    /\ orch.frame.result = ErrorMsg("DecisionServiceError")
    /\ Len(orch.frame.tool_calls) = 2
    /\ Len(probe.runs) = 4
    /\ \A k \in 1..2 :
          LET o == ToolTurns(orch.frame.messages)[k].content.obj
          IN  "response" \in Keys(o) /\ Get(o, "response") \in AgentTexts


\* routing entry k names none of the nine routing functions (and its
\* argument text is JSON, so that execute_routing_call is reached)
UnknownRoute(k) ==
    /\ orch.frame.tool_calls[k].name \notin SingleRoutes \cup {BothRoute}
    /\ ~ JsonLoadsRaises(orch.frame.tool_calls[k].arguments)

\* C31: a routing entry whose name is none of the nine routing functions
\* enters no agent's chat and gets the outcome {error: "Unknown routing
\* function: <name>"} as its tool-result turn; the loop never stops at such
\* an entry, later entries are executed, and a decision of such entries alone
\* reaches the final synthesis call with no agent run at all.
C31_UnknownRoutingFunction ==
    LET f == orch.frame
        tc == f.tool_calls
        turns == ToolTurns(f.messages)
    IN  (f.pc # "idle" /\ tc # << >>) =>
          /\ \A k \in 1..Len(tc) :
                (UnknownRoute(k) /\ k < f.i) =>
                    /\ turns[k].tool_call_id = tc[k].id
                    /\ turns[k].content = JsonDumps(UnknownRoutingFunction(tc[k].name))
                    /\ turns[k].content.obj =
                          {<<"error", "Unknown routing function: route_to_nowhere">>}
                    /\ RunsOfEntries(tc, k) = RunsOfEntries(tc, k - 1)
          /\ f.pc \in {"dispatch", "synthesize", "returned"} =>
                probe.runs = RunsOfEntries(tc, f.i - 1)
          /\ f.pc \in {"in_agent", "in_gaming", "in_price"} => ~ UnknownRoute(f.i)
          /\ (f.pc = "returned" /\ f.i <= Len(tc)) => ~ UnknownRoute(f.i)
          /\ (f.pc = "returned" /\ \A k \in 1..Len(tc) : UnknownRoute(k)) =>
                /\ Len(probe.rounds) = 2
                /\ probe.runs = << >>
                /\ Len(turns) = Len(tc)

C31_Witness ==
    /\ orch.frame.pc = "returned"
    /\ Len(orch.frame.tool_calls) = 2
    /\ UnknownRoute(1)
    /\ orch.frame.tool_calls[2].name = "route_to_brand_agent"
    /\ probe.runs = <<<<"start", "brand">>, <<"end", "brand">>>>
    /\ Get(ToolTurns(orch.frame.messages)[1].content.obj, "error")
          = "Unknown routing function: route_to_nowhere"
    /\ "response" \in Keys(ToolTurns(orch.frame.messages)[2].content.obj)
    /\ probe.rounds[2] = Answer("final", "text A")
    /\ orch.frame.result = "text A"


\* a step keeps the stored instance, and the call after a failed
\* construction that returns an instance has constructed it
StoredInstanceKept ==
    /\ orch.orchestrator_instance = "stored" =>
          /\ orch'.orchestrator_instance = "stored"
          /\ orch'.constructions = orch.constructions
          /\ orch'.get_orchestrator = "instance"
    /\ (orch.get_orchestrator = "HTTPException 500"
          /\ orch'.get_orchestrator = "instance") =>
          orch'.constructions = 1

\* C32: over any sequence of calls of get_orchestrator (by POST /chat and by
\* GET /health) at most one NFTOrchestrator is ever constructed and stored;
\* once one is stored every later call returns it and none replaces it; a
\* call whose construction fails raises HTTPException 500 and leaves None
\* stored, so that the next call constructs again.
C32_SingletonLifecycle ==
    /\ [](/\ orch.constructions <= 1
          /\ (orch.orchestrator_instance = "stored") <=> (orch.constructions = 1)
          /\ orch.orchestrator_instance = "None" =>
                orch.get_orchestrator \in {NoValue, "HTTPException 500"}
          /\ orch.get_orchestrator = "HTTPException 500" =>
                orch.orchestrator_instance = "None"
          /\ orch.frame.pc # "idle" => orch.orchestrator_instance = "stored")
    /\ [][StoredInstanceKept]_vars

\* a POST /chat failed at the construction, and a later GET /health
\* constructed and stored the instance
C32_Witness ==
    /\ orch.response = FailureResponse("user query", InitFailed)
    /\ orch.orchestrator_instance = "stored"
    /\ orch.constructions = 1
    /\ orch.get_orchestrator = "instance"
    /\ orch.frame.pc = "idle"


\* the POST /chat answered last left its try block by an exception of
\* get_orchestrator or of orchestrator.chat
EndpointRaised == orch.request.raised \in {"get_orchestrator", "orchestrator.chat"}

\* C33: the ChatResponse of a POST /chat has success = false exactly when
\* get_orchestrator or orchestrator.chat raised, and then agent_used is
\* "error", response is empty, error is the exception's text and query is the
\* request's message; a failed construction gives this answer with no
\* decision-service call and no agent run, and a chat that returned, an error
\* string included, gives success = true.
C33_EndpointFailureResponse ==
    orch.response # NoResponse =>
        /\ orch.response.success = FALSE <=> EndpointRaised
        /\ orch.response.query = orch.request.message
        /\ orch.response.success = FALSE =>
              /\ orch.response.agent_used = "error"
              /\ orch.response.response = ""
              /\ orch.response.error \in {InitFailed, ChatFault}
              /\ probe.rounds = << >>
              /\ probe.runs = << >>
              /\ \A a \in Agents : agent[a].pc = "idle"
        /\ orch.request.raised = "get_orchestrator" =>
              /\ orch.response = FailureResponse(orch.request.message, InitFailed)
              /\ probe = FreshProbe
        /\ orch.response.success = TRUE =>
              /\ orch.response.error = NoValue
              /\ probe.rounds # << >>

C33_Witness ==
    /\ orch.response = FailureResponse("user query", InitFailed)
    /\ orch.request = [ChatRequest("user query", TRUE) EXCEPT !.raised = "get_orchestrator"]
    /\ orch.get_orchestrator = "HTTPException 500"
    /\ orch.orchestrator_instance = "None"
    /\ orch.frame.pc = "idle"
    /\ probe.rounds = << >>
    /\ probe.runs = << >>


\* the handler of `request` has assigned orchestrator.verbose
WroteVerbose(request) == request.message # NoValue /\ request.raised # "get_orchestrator"

\* C34: a POST /chat puts its request's verbose value on the one
\* orchestrator before chat is entered, and the value stays there after the
\* request has ended, until another request writes; no request changes the
\* verbose flag of an agent.  While a chat is under way the flag is its own
\* request's value unless the handlers of the two requests overlapped, and
\* then it is the value of the other request.
C34_VerboseFlag ==
    LET own == orch.request
        other == orch.parked.request
        flag == orch.instance.verbose
    IN  /\ orch.instance.agents_verbose = [a \in Agents |-> TRUE]
        /\ flag \in IF WroteVerbose(own) \/ WroteVerbose(other)
                    THEN {r.verbose : r \in {q \in {own, other} : WroteVerbose(q)}}
                    ELSE {ConstructedInstance.verbose}
        /\ (WroteVerbose(own) /\ ~ WroteVerbose(other)) => flag = own.verbose
        /\ (orch.frame.pc # "idle" /\ ~ own.overlaps /\ ~ other.overlaps) =>
              flag = own.verbose
        /\ (orch.frame.pc # "idle" /\ flag # own.verbose) =>
              /\ other.overlaps
              /\ WroteVerbose(other)
              /\ flag = other.verbose

\* the first thread's chat is under way with verbose on in its request, and
\* the flag is off: the second thread's handler has started meanwhile
C34_Witness ==
    /\ orch.scenario = "concurrent"
    /\ orch.slot = 1
    /\ orch.frame.pc = "synthesize"
    /\ orch.request.verbose = TRUE
    /\ orch.instance.verbose = FALSE
    /\ orch.parked.request.verbose = FALSE
    /\ orch.parked.request.overlaps
    /\ orch.parked.frame.pc = "decide"


\* C35: of two chat calls on the one orchestrator that had the same query
\* and got the same answers from the decision service, the HTTP
\* collaborators and the agents' faults, the later one has entered the same
\* agents and called the same dispatchers with the same arguments in the
\* same order, holds the same final conversation and returns the same text,
\* whatever call was served before it.
C35_Determinism ==
    \A k \in 1..Len(orch.served) :
        /\ (orch.frame.pc = "returned"
              /\ orch.served[k].user_message = orch.frame.user_message
              /\ orch.served[k].answers = probe.answers) =>
              /\ orch.served[k].invocations = probe.invocations
              /\ orch.served[k].messages = orch.frame.messages
              /\ orch.served[k].result = orch.frame.result
        /\ \A j \in 1..Len(orch.served) :
              (orch.served[k].user_message = orch.served[j].user_message
                /\ orch.served[k].answers = orch.served[j].answers) =>
                  orch.served[k] = orch.served[j]

\* a second call with the first one's query has got the first one's
\* answers, an agent's tool request and its HTTP outcome among them
C35_Witness ==
    /\ orch.frame.pc = "returned"
    /\ Len(orch.served) = 1
    /\ orch.served[1].user_message = orch.frame.user_message
    /\ orch.served[1].answers = probe.answers
    /\ \E n \in 1..Len(probe.answers) : probe.answers[n].kind = "http"
    /\ Len(probe.invocations) >= 2
    /\ orch.frame.result = "text A"
    /\ Len(probe.rounds) = 2

====
